---- MODULE Spec2Model ----
(***************************************************************************)
(* Model of colby's cb.py: the module-level layout helpers (coordinate     *)
(* conversion, time-series range imposition, bar widths, observation       *)
(* centering, tick/label ranges).                                          *)
(*                                                                         *)
(* Numbers: a Python number is an exact rational <<n, d>> with d > 0 in    *)
(* lowest terms, so the arithmetic of the code is followed without the     *)
(* rounding of IEEE doubles.  Timestamps are whole ticks (seconds) since   *)
(* CalYear0-01-01 00:00.  An outcome of a call is [kind, of, val]: kind    *)
(* "ok" with the returned value, or kind "raise" with the exception's      *)
(* name.                                                                   *)
(***************************************************************************)
EXTENDS Integers, Sequences, FiniteSets, TLC

\* res: the object a call returned: 0 none, 1 the caller's series object (the
\* one holding ser), 2.. an object made during the call
\* panel_dict, fig: the fields of the caller's Exhibit object
VARIABLES ax, ser, call, ret, res, panel_dict, fig

vars == <<ax, ser, call, ret, res, panel_dict, fig>>
exhibit == <<panel_dict, fig>>

(***************************************************************************)
(* Bounds of the model.                                                    *)
(***************************************************************************)
MaxStacks == 2
MaxLen == 4
MaxGrid == 2
MaxArtists == 2

(***************************************************************************)
(* Exact rational arithmetic.                                              *)
(***************************************************************************)
Abs(n) == IF n < 0 THEN -n ELSE n

RECURSIVE Gcd(_, _)
Gcd(a, b) == IF b = 0 THEN a ELSE Gcd(b, a % b)

Rat(n, d) ==
    LET g == Gcd(Abs(n), Abs(d))
        s == IF d < 0 THEN -1 ELSE 1
    IN  <<(s * n) \div g, (s * d) \div g>>

Num(n) == <<n, 1>>
QAdd(p, q) == Rat(p[1] * q[2] + q[1] * p[2], p[2] * q[2])
QSub(p, q) == Rat(p[1] * q[2] - q[1] * p[2], p[2] * q[2])
QMul(p, q) == Rat(p[1] * q[1], p[2] * q[2])
QQuot(p, q) == Rat(p[1] * q[2], p[2] * q[1])
QLt(p, q) == p[1] * q[2] < q[1] * p[2]
QFloor(p) == p[1] \div p[2]

\* of names the type of val, so that outcomes of different types differ
\* before their values are compared
OkNum(q) == [kind |-> "ok", of |-> "number", val |-> q]
OkSeries(s) == [kind |-> "ok", of |-> "series", val |-> s]
OkTag(t) == [kind |-> "ok", of |-> "tag", val |-> t]
OkList(l) == [kind |-> "ok", of |-> "list", val |-> l]
OkDrawn(artists) == [kind |-> "ok", of |-> "artists", val |-> artists]
OkPartition(d) == [kind |-> "ok", of |-> "partition", val |-> d]
OkDates(ts) == [kind |-> "ok", of |-> "dates", val |-> ts]
Raise(e) == [kind |-> "raise", of |-> "exception", val |-> e]
\* no call has returned
NoResult == [kind |-> "none", of |-> "nothing", val |-> 0]

\* The value of a true division by zero that does not raise: inf or nan.
NonFinite == "inf-or-nan"

(***************************************************************************)
(* x / y.  Python's int and float raise ZeroDivisionError on y = 0; the    *)
(* numpy.float64 values matplotlib's get_xlim/get_ylim return give inf or  *)
(* nan (with a RuntimeWarning) instead.                                    *)
(***************************************************************************)
truediv(x, y, np64) ==
    IF y[1] = 0
    THEN IF np64 THEN OkNum(NonFinite) ELSE Raise("ZeroDivisionError")
    ELSE OkNum(QQuot(x, y))

(***************************************************************************)
(* Calendar: proleptic Gregorian, days counted from CalYear0-01-01.        *)
(***************************************************************************)
CalYear0 == 2019
TicksPerDay == 24 * 60 * 60

IsLeap(y) == (y % 4 = 0 /\ y % 100 # 0) \/ y % 400 = 0
YearLen(y) == IF IsLeap(y) THEN 366 ELSE 365
MonthLen(y, m) ==
    IF m = 2 THEN (IF IsLeap(y) THEN 29 ELSE 28)
    ELSE IF m \in {4, 6, 9, 11} THEN 30 ELSE 31

RECURSIVE DaysBeforeYear(_)
DaysBeforeYear(y) == IF y <= CalYear0 THEN 0 ELSE DaysBeforeYear(y - 1) + YearLen(y - 1)

RECURSIVE DaysBeforeMonth(_, _)
DaysBeforeMonth(y, m) == IF m <= 1 THEN 0 ELSE DaysBeforeMonth(y, m - 1) + MonthLen(y, m - 1)

DayNumber(y, m, d) == DaysBeforeYear(y) + DaysBeforeMonth(y, m) + (d - 1)

RECURSIVE YearOfDay(_, _)
YearOfDay(n, y) == IF n < YearLen(y) THEN <<y, n>> ELSE YearOfDay(n - YearLen(y), y + 1)

RECURSIVE MonthOfDay(_, _, _)
MonthOfDay(n, y, m) == IF n < MonthLen(y, m) THEN <<m, n + 1>> ELSE MonthOfDay(n - MonthLen(y, m), y, m + 1)

\* <<year, month, day>> of a day number >= 0
DateOfDay(n) ==
    LET yr == YearOfDay(n, CalYear0)
        md == MonthOfDay(yr[2], yr[1], 1)
    IN  <<yr[1], md[1], md[2]>>

\* floor division and the day a tick lies in
FloorDiv(a, b) == a \div b
DayOfTick(t) == FloorDiv(t, TicksPerDay)
\* Timestamp.month
month(t) == DateOfDay(DayOfTick(t))[2]

\* matplotlib's date ordinal of CalYear0-01-01: days since 1970-01-01
\* (49 years, 12 of them leap)
EpochOrdinal == 49 * 365 + 12

(***************************************************************************)
(* Coordinates a caller can pass: a number, a date or "%Y-%m-%d" date      *)
(* string (y, m, d), or a pandas Period (its first day).                   *)
(***************************************************************************)
NumCoord(q) == [type |-> "number", v |-> q]
DateCoord(y, m, d) == [type |-> "date", y |-> y, m |-> m, d |-> d]
PeriodCoord(y, m, d) == [type |-> "period", y |-> y, m |-> m, d |-> d]
IsNumber(coord) == coord.type = "number"

\* pd.Timestamp(coord) for a date, date string or (converted) Period: midnight
Timestamp(coord) == DayNumber(coord.y, coord.m, coord.d) * TicksPerDay

\* mdates.date2num: days since 1970-01-01 as a float
date2num(t) == QAdd(Rat(t, TicksPerDay), Num(EpochOrdinal))

\* mdates.num2date followed by str()[0:10]: the calendar day the ordinal lies in
num2date_day(q) == QFloor(q) - EpochOrdinal

get_xlim(a) == a.xlim
get_ylim(a) == a.ylim

\* a conversion that forgets the offset of the axis minimum
data2fixed_no_offset(coord, a, axis) ==
    LET axis_lim == IF axis = 0 THEN get_xlim(a) ELSE get_ylim(a)
        c == IF IsNumber(coord) THEN coord.v ELSE date2num(Timestamp(coord))
    IN  truediv(c, QSub(axis_lim[2], axis_lim[1]), a.np64)

data2fixed(coord, a, axis) ==
    LET axis_lim == IF axis = 0 THEN get_xlim(a) ELSE get_ylim(a)
        c == IF IsNumber(coord) THEN coord.v ELSE date2num(Timestamp(coord))
    IN  truediv(QSub(c, axis_lim[1]), QSub(axis_lim[2], axis_lim[1]), a.np64)

fixed2data(coord, a, axis) ==
    LET axis_lim == IF axis = 0 THEN get_xlim(a) ELSE get_ylim(a)
    IN  OkNum(QAdd(QMul(coord, QSub(axis_lim[2], axis_lim[1])), axis_lim[1]))

(***************************************************************************)
(* Strings: str.lower() and str.upper(), character by character.           *)
(***************************************************************************)
UpperAlpha == "ABCDEFGHIJKLMNOPQRSTUVWXYZ"
LowerAlpha == "abcdefghijklmnopqrstuvwxyz"

CharAt(s, i) == SubSeq(s, i, i)

char_map(c, from, to) ==
    IF \E i \in 1..Len(from) : CharAt(from, i) = c
    THEN CharAt(to, CHOOSE i \in 1..Len(from) : CharAt(from, i) = c)
    ELSE c

RECURSIVE str_map(_, _, _)
str_map(s, from, to) ==
    IF Len(s) = 0 THEN ""
    ELSE char_map(CharAt(s, 1), from, to) \o str_map(SubSeq(s, 2, Len(s)), from, to)

lower(s) == str_map(s, UpperAlpha, LowerAlpha)
upper(s) == str_map(s, LowerAlpha, UpperAlpha)

(***************************************************************************)
(* Python dicts as functions; d[k] = v is DictSet.                         *)
(***************************************************************************)
DictSet(d, k, v) == (k :> v) @@ d

\* An optional argument: Nothing is Python's None, Some(s) the string s
Some(s) == <<s>>
Nothing == <<>>

(***************************************************************************)
(* Time series: obs is the sequence of <<timestamp, value>> in index       *)
(* order (a DatetimeIndex in increasing order); freq is str(index.freq).   *)
(***************************************************************************)
Series(obs, freq) == [obs |-> obs, freq |-> freq]

\* timedelta(days = q), resolved to whole ticks, rounding half to even
RoundHalfEven(n, d) ==
    LET f == n \div d
        r == n - f * d
    IN  IF 2 * r < d THEN f
        ELSE IF 2 * r > d THEN f + 1
        ELSE IF f % 2 = 0 THEN f ELSE f + 1

timedelta(q) ==
    LET g == Gcd(q[2], TicksPerDay)
    IN  RoundHalfEven(q[1] * (TicksPerDay \div g), q[2] \div g)

(***************************************************************************)
(* impose_ts_xrange                                                        *)
(***************************************************************************)
xrange_date_bounds(x_range) ==
    IF IsNumber(x_range[1])
    THEN [i \in 1..2 |-> num2date_day(x_range[i].v) * TicksPerDay]
    ELSE [i \in 1..2 |-> Timestamp(x_range[i])]

\* a slice open at the right end
label_slice_half_open(s, a, b) ==
    Series(SelectSeq(s.obs, LAMBDA o : a <= o[1] /\ o[1] < b), s.freq)

\* new_series[a:b] on a DatetimeIndex: a label slice, closed at both ends
label_slice(s, a, b) ==
    Series(SelectSeq(s.obs, LAMBDA o : a <= o[1] /\ o[1] <= b), s.freq)

impose_ts_xrange(s, x_range) ==
    LET date_bounds == xrange_date_bounds(x_range)
        new_series == s
    IN  OkSeries(label_slice(new_series, date_bounds[1], date_bounds[2] + timedelta(Num(1))))

(***************************************************************************)
(* The period-length tables (days per period), built as the code builds    *)
(* them.                                                                   *)
(***************************************************************************)
RECURSIVE add_minutes(_, _)
add_minutes(d, is) ==
    IF is = <<>> THEN d
    ELSE add_minutes(DictSet(d, "<" \o ToString(Head(is)) \o " Minutes>", Rat(Head(is), 60 * 24)),
                     Tail(is))

RECURSIVE add_hours(_, _)
add_hours(d, is) ==
    IF is = <<>> THEN d
    ELSE add_hours(DictSet(d, "<" \o ToString(Head(is)) \o " Hours>", Rat(Head(is), 24)),
                   Tail(is))

RECURSIVE add_weeks(_, _)
add_weeks(d, xs) ==
    IF xs = <<>> THEN d
    ELSE add_weeks(DictSet(d, "<Week: weekday=" \o ToString(Head(xs)) \o ">", Num(7)),
                   Tail(xs))

MinuteSkips == <<5, 10, 15, 20, 30>>
HourSkips == <<2, 3, 4, 6, 8, 12>>
Weekdays == <<0, 1, 2, 3, 4, 5, 6>>

\* the strings str(i) + unit for the i of a list
RECURSIVE prefixed(_, _)
prefixed(is, unit) ==
    IF is = <<>> THEN {} ELSE {ToString(Head(is)) \o unit} \cup prefixed(Tail(is), unit)

\* freq_dict of calc_ts_bar_width
bar_freq_dict ==
    LET base == ("<Minute>" :> Rat(1, 60 * 24)) @@ ("<Hour>" :> Rat(1, 24))
                @@ ("<Day>" :> Num(1)) @@ ("<BusinessDay>" :> Num(1))
                @@ ("<MonthEnd>" :> Num(30)) @@ ("<6 * MonthEnds>" :> Num(180))
                @@ ("<QuarterEnd: startingMonth=12>" :> Num(91))
                @@ ("<2 * QuarterEnds: startingMonth=12>" :> Num(182))
                @@ ("<YearEnd: month=12>" :> Num(365))
    IN  add_weeks(add_hours(add_minutes(base, MinuteSkips), HourSkips), Weekdays)

\* freq_dict of center_ts_obs
center_freq_dict ==
    LET base == ("<Minute>" :> Rat(1, 60 * 24)) @@ ("<Hour>" :> Rat(1, 24))
                @@ ("<Day>" :> Num(1)) @@ ("<BusinessDay>" :> Num(1))
                @@ ("<MonthEnd>" :> Num(30)) @@ ("<6 * MonthEnd>" :> Num(180))
                @@ ("<QuarterEnd: startingMonth=12>" :> Num(91))
                @@ ("<2 * QuarterEnds: startingMonth=12>" :> Num(182))
                @@ ("<YearEnd: month=12>" :> Num(365))
    IN  add_weeks(add_hours(add_minutes(base, MinuteSkips), HourSkips), Weekdays)

RECURSIVE add_min_shorthand(_, _)
add_min_shorthand(d, is) ==
    IF is = <<>> THEN d
    ELSE add_min_shorthand(DictSet(d, ToString(Head(is)) \o "min",
                                   "<" \o ToString(Head(is)) \o " Minutes>"), Tail(is))

RECURSIVE add_hour_shorthand(_, _)
add_hour_shorthand(d, is) ==
    IF is = <<>> THEN d
    ELSE add_hour_shorthand(DictSet(d, ToString(Head(is)) \o "h",
                                    "<" \o ToString(Head(is)) \o " Hours>"), Tail(is))

\* for dict_value in list(d.values()): d[dict_value.lower()] = dict_value
add_lowered_values(d) ==
    [k \in DOMAIN d \cup {lower(d[j]) : j \in DOMAIN d} |->
        IF \E j \in DOMAIN d : lower(d[j]) = k
        THEN CHOOSE v \in {d[j] : j \in DOMAIN d} : lower(v) = k
        ELSE d[k]]

shorthand_freq_dict ==
    LET base == ("min" :> "<Minute>") @@ ("h" :> "<Hour>") @@ ("d" :> "<Day>")
                @@ ("b" :> "<BusinessDay>") @@ ("w" :> "Week: weekday=6>")
                @@ ("m" :> "<MonthEnd>") @@ ("6m" :> "<6 * MonthEnds>")
                @@ ("q" :> "<QuarterEnd: startingMonth=12>")
                @@ ("2q" :> "<2 * QuarterEnds: startingMonth=12>")
                @@ ("a" :> "<YearEnd: month=12>") @@ ("y" :> "<YearEnd: month=12>")
    IN  add_lowered_values(add_hour_shorthand(add_min_shorthand(base, MinuteSkips), HourSkips))

(***************************************************************************)
(* calc_ts_bar_width                                                       *)
(***************************************************************************)
\* a bar width that ignores width_coef
calc_ts_bar_width_unscaled(freq, number_stacks, width_coef) ==
    IF freq \notin DOMAIN bar_freq_dict THEN Raise("KeyError")
    ELSE truediv(bar_freq_dict[freq], Num(number_stacks), FALSE)

calc_ts_bar_width(freq, number_stacks, width_coef) ==
    IF freq \notin DOMAIN bar_freq_dict THEN Raise("KeyError")
    ELSE truediv(QMul(width_coef, bar_freq_dict[freq]), Num(number_stacks), FALSE)

(***************************************************************************)
(* center_ts_obs                                                           *)
(***************************************************************************)
Half == Rat(1, 2)
SemiAnnual == "<2 * QuarterEnds: startingMonth=12>"

\* pandas keeps the freq of a DatetimeIndex under timedelta arithmetic only
\* when it is a fixed-length (Tick) frequency
TickFreqs == {"<Minute>", "<Hour>", "<Day>"}
arithmetic_result_freq(s) == IF s.freq \in TickFreqs THEN s.freq ELSE "None"

\* a shift that takes curr_stack whole bar widths, not curr_stack - .5
standard_shift_whole_bars(period_length, bar_width, curr_stack, width_coef, pos_adj) ==
    QSub(QAdd(QMul(QSub(Half, QQuot(width_coef, Num(2))), period_length),
              QMul(Num(curr_stack), bar_width)),
         pos_adj)

\* ((.5 - width_coef/2) * period_length) + ((curr_stack - .5) * bar_width) - pos_adj
standard_shift(period_length, bar_width, curr_stack, width_coef, pos_adj) ==
    QSub(QAdd(QMul(QSub(Half, QQuot(width_coef, Num(2))), period_length),
              QMul(QSub(Num(curr_stack), Half), bar_width)),
         pos_adj)

\* ser_freq after the first if/else: the stored freq's str, or the shorthand's tag
resolve_ser_freq(new_series, ser_freq) ==
    IF ser_freq = Nothing THEN OkTag(new_series.freq)
    ELSE IF lower(ser_freq[1]) \in DOMAIN shorthand_freq_dict
         THEN OkTag(shorthand_freq_dict[lower(ser_freq[1])])
         ELSE Raise("KeyError")

\* freq_check; reading index[0] of an empty index raises IndexError, which
\* center_from_tag reports before using this
freq_check_any_month(new_series, ser_freq) == ser_freq = SemiAnnual

freq_check(new_series, ser_freq) ==
    ser_freq = SemiAnnual /\ month(new_series.obs[1][1]) \notin {6, 12}

\* a shift_index that moves the i-th position by i times the offset
shift_index_per_obs(s, ticks, freq) ==
    Series([i \in DOMAIN s.obs |-> <<s.obs[i][1] + i * ticks, s.obs[i][2]>>], freq)

\* index +/- timedelta: every position moved by the same number of ticks
shift_index(s, ticks, freq) ==
    Series([i \in DOMAIN s.obs |-> <<s.obs[i][1] + ticks, s.obs[i][2]>>], freq)

\* the body of center_ts_obs from freq_dict on, ser_freq being resolved to tag
center_from_tag(new_series, tag, number_stacks, curr_stack, width_coef, pos_adj) ==
    IF tag = SemiAnnual /\ Len(new_series.obs) = 0 THEN Raise("IndexError")
    ELSE IF tag \notin DOMAIN center_freq_dict THEN Raise("KeyError")
    ELSE
      LET period_length == center_freq_dict[tag]
          bw == truediv(QMul(width_coef, period_length), Num(number_stacks), FALSE)
      IN  IF bw.kind = "raise" THEN bw
          ELSE
            LET bar_width == bw.val
                std == timedelta(standard_shift(period_length, bar_width, curr_stack,
                                                width_coef, pos_adj))
                freq == arithmetic_result_freq(new_series)
            IN  IF freq_check(new_series, tag)
                THEN OkSeries(shift_index(shift_index(new_series,
                                                timedelta(QQuot(period_length, Num(2))), freq),
                                    -std, freq))
                ELSE OkSeries(shift_index(new_series, -std, freq))

\* a centering that returns the series unshifted for an unknown frequency
center_ts_obs_lenient(s, ser_freq, number_stacks, curr_stack, width_coef, pos_adj) ==
    LET r == resolve_ser_freq(s, ser_freq)
    IN  IF r.kind = "raise" THEN OkSeries(s)
        ELSE IF r.val \notin DOMAIN center_freq_dict THEN OkSeries(s)
        ELSE center_from_tag(s, r.val, number_stacks, curr_stack, width_coef, pos_adj)

center_ts_obs(s, ser_freq, number_stacks, curr_stack, width_coef, pos_adj) ==
    LET new_series == s
        r == resolve_ser_freq(new_series, ser_freq)
    IN  IF r.kind = "raise" THEN r
        ELSE center_from_tag(new_series, r.val, number_stacks, curr_stack, width_coef, pos_adj)

(***************************************************************************)
(* center_cs_obs                                                           *)
(***************************************************************************)
\* the i-th element of the list comprehension, x = i - 1
cs_position(x, number_stacks, curr_stack, width_coef, pos_adj) ==
    QAdd(QAdd(Num(x),
              QMul(width_coef,
                   QSub(QQuot(QSub(Num(curr_stack), Half), Num(number_stacks)), Half))),
         pos_adj)

\* a centering that places the observations at their values
center_cs_obs_at_values(s, number_stacks, curr_stack, width_coef, pos_adj) ==
    IF Len(s.obs) > 0 /\ number_stacks = 0 THEN Raise("ZeroDivisionError")
    ELSE OkList([i \in 1..Len(s.obs) |->
                    cs_position(s.obs[i][2], number_stacks, curr_stack, width_coef, pos_adj)])

\* the division is evaluated once per element, so an empty ser never divides
center_cs_obs(s, number_stacks, curr_stack, width_coef, pos_adj) ==
    IF Len(s.obs) > 0 /\ number_stacks = 0 THEN Raise("ZeroDivisionError")
    ELSE OkList([i \in 1..Len(s.obs) |->
                    cs_position(i - 1, number_stacks, curr_stack, width_coef, pos_adj)])

(***************************************************************************)
(* form_partition                                                          *)
(***************************************************************************)
\* sum(sizes[:ind]): a slice past the end of the list stops at its end
RECURSIVE sum_first(_, _)
sum_first(sizes, ind) ==
    IF ind <= 0 \/ sizes = <<>> THEN Num(0)
    ELSE QAdd(Head(sizes), sum_first(Tail(sizes), ind - 1))

\* [1] * n, the empty list for n <= 0
ones(n) == [i \in 1..n |-> Num(1)]

\* [start + sign * (length * sum(sizes[:ind]) / total) for ind in range(n)] + [last]
boundaries(start, sign, length, sizes, n, last) ==
    LET total == sum_first(sizes, Len(sizes))
    IN  IF n >= 1 /\ total[1] = 0 THEN Raise("ZeroDivisionError")
        ELSE OkList([ind \in 1..(IF n >= 1 THEN n ELSE 0) |->
                        QAdd(start, QMul(Num(sign),
                                         QQuot(QMul(length, sum_first(sizes, ind - 1)), total)))]
                    \o <<last>>)

\* a partition whose rows are counted from the bottom edge
form_partition_from_bottom(h_start, h_end, v_start, v_end, nrow, ncol, relative_row_sizes, relative_col_sizes) ==
    LET rs == IF relative_row_sizes = Nothing THEN ones(nrow) ELSE relative_row_sizes[1]
        cs == IF relative_col_sizes = Nothing THEN ones(ncol) ELSE relative_col_sizes[1]
        rows == boundaries(v_start, 1, QSub(v_end, v_start), rs, nrow, v_end)
        cols == boundaries(h_start, 1, QSub(h_end, h_start), cs, ncol, h_end)
    IN  IF rows.kind = "raise" THEN rows
        ELSE IF cols.kind = "raise" THEN cols
        ELSE OkPartition([rows |-> rows.val, cols |-> cols.val])

\* a partition that gives every row and column the same size
form_partition_uniform(h_start, h_end, v_start, v_end, nrow, ncol, relative_row_sizes, relative_col_sizes) ==
    LET rows == boundaries(v_end, -1, QSub(v_end, v_start), ones(nrow), nrow, v_start)
        cols == boundaries(h_start, 1, QSub(h_end, h_start), ones(ncol), ncol, h_end)
    IN  IF rows.kind = "raise" THEN rows
        ELSE IF cols.kind = "raise" THEN cols
        ELSE OkPartition([rows |-> rows.val, cols |-> cols.val])

form_partition(h_start, h_end, v_start, v_end, nrow, ncol, relative_row_sizes, relative_col_sizes) ==
    LET h_length == QSub(h_end, h_start)
        v_length == QSub(v_end, v_start)
        rs == IF relative_row_sizes = Nothing THEN ones(nrow) ELSE relative_row_sizes[1]
        cs == IF relative_col_sizes = Nothing THEN ones(ncol) ELSE relative_col_sizes[1]
        rows == boundaries(v_end, -1, v_length, rs, nrow, v_start)
        cols == boundaries(h_start, 1, h_length, cs, ncol, h_end)
    IN  IF rows.kind = "raise" THEN rows
        ELSE IF cols.kind = "raise" THEN cols
        ELSE OkPartition([rows |-> rows.val, cols |-> cols.val])

(***************************************************************************)
(* Series objects.  A heap is the sequence of the series objects alive, a  *)
(* reference an index into it.  A function working on objects gives the    *)
(* heap it leaves, the reference it returns (0: none) and its outcome.     *)
(***************************************************************************)
\* new_series = ser: a second name for the same object
same_object(h, o) == [heap |-> h, ref |-> o]

\* copy.deepcopy(ser): a new object with the same index and values
deepcopy(h, o) == [heap |-> Append(h, h[o]), ref |-> Len(h) + 1]

\* a series indexed by periods, each held as its start instant
PeriodSeries(obs, freq) == [obs |-> obs, freq |-> freq, index |-> "PeriodIndex"]
IsPeriodIndex(s) == "index" \in DOMAIN s

\* PeriodIndex.to_timestamp(freq = index.freq): the start instants, as a
\* DatetimeIndex whose freq is the start-anchored one
to_timestamp(s) ==
    Series(s.obs, IF s.freq \in TickFreqs THEN s.freq
                  ELSE IF s.freq = "<MonthEnd>" THEN "<MonthBegin>" ELSE "None")

\* output.index = output.index.to_timestamp(...) when the index is of periods
index_to_timestamp(output) ==
    IF IsPeriodIndex(output.heap[output.ref])
    THEN [heap |-> [output.heap EXCEPT ![output.ref] = to_timestamp(@)],
          ref |-> output.ref,
          out |-> OkSeries(to_timestamp(output.heap[output.ref]))]
    ELSE [heap |-> output.heap, ref |-> output.ref,
          out |-> OkSeries(output.heap[output.ref])]

period_to_ts_obj(h, o) == index_to_timestamp(deepcopy(h, o))

\* the slice r is a new object over the copy
sliced(new_series, r) ==
    [heap |-> Append(new_series.heap, r.val), ref |-> Len(new_series.heap) + 1, out |-> r]

slice_copy(new_series, x_range) ==
    sliced(new_series, impose_ts_xrange(new_series.heap[new_series.ref], x_range))

impose_ts_xrange_obj(h, o, x_range) == slice_copy(deepcopy(h, o), x_range)

\* new_series.index = ... assigns the shifted index r holds into the copy
reindexed(new_series, r) ==
    IF r.kind = "raise" THEN [heap |-> new_series.heap, ref |-> 0, out |-> r]
    ELSE [heap |-> [new_series.heap EXCEPT ![new_series.ref] = r.val],
          ref |-> new_series.ref, out |-> r]

center_copy(new_series, ser_freq, number_stacks, curr_stack, width_coef, pos_adj) ==
    reindexed(new_series,
              center_ts_obs(new_series.heap[new_series.ref], ser_freq, number_stacks,
                            curr_stack, width_coef, pos_adj))

center_ts_obs_obj(h, o, ser_freq, number_stacks, curr_stack, width_coef, pos_adj) ==
    center_copy(deepcopy(h, o), ser_freq, number_stacks, curr_stack, width_coef, pos_adj)

(***************************************************************************)
(* Exhibit.plot_panel_ts_line / _scatter / _barstack on one panel.  What   *)
(* a call hands to curr_ax.plot or curr_ax.bar is its outcome.             *)
(***************************************************************************)
\* ser_freq_dict of the plot_panel_ts_* methods
ser_freq_dict ==
    LET base == [x \in {"min", "h", "d", "b", "w", "m", "6m", "q", "2q", "a", "y"} |->
                    IF x = "a" THEN "Y" ELSE upper(x)]
        mins == [x \in {"min"} \cup prefixed(MinuteSkips, "min") |-> x]
        hours == [x \in {"h"} \cup prefixed(HourSkips, "h") |-> x]
    IN  hours @@ mins @@ base

\* the number in front of a frequency code ("" when none) and the code's unit
code_count(code) ==
    IF Len(code) > 1 /\ CharAt(code, 1) \in {"1", "2", "3", "4", "5", "6", "8"}
    THEN IF Len(code) > 2 /\ CharAt(code, 2) \in {"0", "2", "5"}
         THEN SubSeq(code, 1, 2) ELSE SubSeq(code, 1, 1)
    ELSE ""
code_unit(code) == SubSeq(code, Len(code_count(code)) + 1, Len(code))

\* str(pd.Period("1970-01-01", freq = code).freq)
period_freq_str(code) ==
    LET n == code_count(code)
        u == code_unit(code)
        single == CASE u = "s" -> "Second" [] u = "min" -> "Minute" [] u = "h" -> "Hour"
                    [] u = "D" -> "Day" [] u = "B" -> "BusinessDay"
                    [] u = "W" -> "Week" [] u = "M" -> "MonthEnd"
                    [] u = "Q" -> "QuarterEnd" [] u = "Y" -> "YearEnd"
        anchor == CASE u = "W" -> ": weekday=6" [] u = "Q" -> ": startingMonth=12"
                    [] u = "Y" -> ": month=12" [] OTHER -> ""
    IN  IF n = "" THEN "<" \o single \o anchor \o ">"
        ELSE "<" \o n \o " * " \o single \o "s" \o anchor \o ">"

\* str(pd.infer_freq(index)) for an index of at least 3 dates: "D" for
\* consecutive days, "None" when the spacing is irregular
infer_freq(s) ==
    IF \A i \in 1..(Len(s.obs) - 1) : s.obs[i + 1][1] - s.obs[i][1] = TicksPerDay
    THEN "D" ELSE "None"

\* a series too short to infer a freq from taken for a daily one
plot_ser_freq_short_as_daily(s, ser_freq) ==
    IF ser_freq # Nothing
    THEN IF lower(ser_freq[1]) \in DOMAIN ser_freq_dict
         THEN OkTag(period_freq_str(ser_freq_dict[lower(ser_freq[1])]))
         ELSE Raise("KeyError")
    ELSE IF s.freq # "None" THEN OkTag(s.freq)
    ELSE IF Len(s.obs) < 3 THEN OkTag("<Day>")
    ELSE OkTag(infer_freq(s))

\* str(ser_freq_obj) of lines 1357-1376
plot_ser_freq(s, ser_freq) ==
    IF ser_freq # Nothing
    THEN IF lower(ser_freq[1]) \in DOMAIN ser_freq_dict
         THEN OkTag(period_freq_str(ser_freq_dict[lower(ser_freq[1])]))
         ELSE Raise("KeyError")
    ELSE IF s.freq # "None" THEN OkTag(s.freq)
    ELSE IF Len(s.obs) < 3 THEN Raise("AssertionError")
    ELSE OkTag(infer_freq(s))

\* center_ts_obs(impose_ts_xrange(period_to_ts(ser), x_range), str(ser_freq_obj), ...)
impose_on(p, x_range) == impose_ts_xrange_obj(p.heap, p.ref, x_range)
center_on(i, tag, a) ==
    center_ts_obs_obj(i.heap, i.ref, Some(tag), a.number_stacks, a.curr_stack,
                      a.width_coef, a.pos_adj)
restrict_and_center(h, o, tag, a, x_range) ==
    center_on(impose_on(period_to_ts_obj(h, o), x_range), tag, a)

axis_x_range(a) == <<NumCoord(a.xlim[1]), NumCoord(a.xlim[2])>>

\* curr_ax.plot of the centred series c holds
plot_centered(c) ==
    IF c.out.kind = "raise" THEN [heap |-> c.heap, ref |-> 0, out |-> c.out]
    ELSE [heap |-> c.heap, ref |-> 0, out |-> OkDrawn(<<c.out.val>>)]

\* the steps after the frequency f is settled
plot_with_freq(f, h, o, a, axes) ==
    IF f.kind = "raise" THEN [heap |-> h, ref |-> 0, out |-> f]
    ELSE plot_centered(restrict_and_center(h, o, f.val, a, axis_x_range(axes)))

\* plot_panel_ts_line and plot_panel_ts_scatter: the same steps, then curr_ax.plot
plot_panel_ts_points(h, o, a, axes) ==
    plot_with_freq(plot_ser_freq(h[o], a.ser_freq), h, o, a, axes)

\* centered_list, from its k-th element on
RECURSIVE centered_from(_, _, _, _, _, _)
\* the centred k-th series c, then the rest of the list
centered_cons(c, rest) ==
    [heap |-> rest.heap, refs |-> <<c.ref>> \o rest.refs, out |-> rest.out]
centered_after(c, refs, k, tag, a, x_range) ==
    IF c.out.kind = "raise" THEN [heap |-> c.heap, refs |-> <<>>, out |-> c.out]
    ELSE centered_cons(c, centered_from(c.heap, refs, k + 1, tag, a, x_range))
centered_from(h, refs, k, tag, a, x_range) ==
    IF k > Len(refs) THEN [heap |-> h, refs |-> <<>>, out |-> NoResult]
    ELSE centered_after(restrict_and_center(h, refs[k], tag, a, x_range),
                        refs, k, tag, a, x_range)

\* all_index.unique().sort_values()
RECURSIVE sort_values(_)
sort_values(S) ==
    IF S = {} THEN <<>>
    ELSE LET m == CHOOSE x \in S : \A y \in S : x <= y
         IN  <<m>> \o sort_values(S \ {m})

\* centered[time_ind] = 0 for every missing time_ind, then sort_index()
fill_and_sort(s, all_index) ==
    LET has(t) == \E i \in DOMAIN s.obs : s.obs[i][1] = t
        at(t) == s.obs[CHOOSE i \in DOMAIN s.obs : s.obs[i][1] = t][2]
    IN  Series([j \in DOMAIN all_index |->
                    <<all_index[j], IF has(all_index[j]) THEN at(all_index[j]) ELSE 0>>],
               IF \A j \in DOMAIN all_index : has(all_index[j]) THEN s.freq ELSE "None")

\* the bars of the series from the k-th on; pos and neg are bottom_list[0] and [1]
RECURSIVE bars_from(_, _, _, _, _, _)
bars_from(filled, k, all_index, bar_width, pos, neg) ==
    IF k > Len(filled) THEN <<>>
    ELSE LET v == [ind \in DOMAIN all_index |-> filled[k].obs[ind][2]]
             bottom == [ind \in DOMAIN all_index |-> IF v[ind] >= 0 THEN pos[ind] ELSE neg[ind]]
             pos2 == [ind \in DOMAIN all_index |-> IF v[ind] >= 0 THEN pos[ind] + v[ind] ELSE pos[ind]]
             neg2 == [ind \in DOMAIN all_index |-> IF v[ind] >= 0 THEN neg[ind] ELSE neg[ind] + v[ind]]
         IN  <<[x |-> all_index, height |-> v, width |-> bar_width, bottom |-> bottom]>>
                 \o bars_from(filled, k + 1, all_index, bar_width, pos2, neg2)

\* pd.concat of the indexes of the centred series
all_index_of(c) ==
    sort_values(UNION {{c.heap[r].obs[i][1] : i \in DOMAIN c.heap[r].obs} :
                          r \in {c.refs[k] : k \in DOMAIN c.refs}})

filled_list(c, all_index) ==
    [k \in DOMAIN c.refs |-> fill_and_sort(c.heap[c.refs[k]], all_index)]

\* curr_ax.bar for each of the filled series in turn
draw_bars(c, filled, all_index, bar_width) ==
    LET zeros == [ind \in DOMAIN all_index |-> 0]
    IN  [heap |-> [j \in DOMAIN c.heap |->
                      IF \E k \in DOMAIN c.refs : c.refs[k] = j
                      THEN filled[CHOOSE k \in DOMAIN c.refs : c.refs[k] = j]
                      ELSE c.heap[j]] \o filled,
         ref |-> 0,
         out |-> OkDrawn(bars_from(filled, 1, all_index, bar_width, zeros, zeros))]

fill_and_draw(c, all_index, bar_width) ==
    draw_bars(c, filled_list(c, all_index), all_index, bar_width)

\* the steps after the list is centred
bars_of_centered(c, bar_width) ==
    IF c.out.kind = "raise" THEN [heap |-> c.heap, ref |-> 0, out |-> c.out]
    ELSE fill_and_draw(c, all_index_of(c), bar_width)

\* the steps after bar_width is computed
bars_with_width(bar_width, f, h, refs, a, axes) ==
    IF bar_width.kind = "raise" THEN [heap |-> h, ref |-> 0, out |-> bar_width]
    ELSE bars_of_centered(centered_from(h, refs, 1, f.val, a, axis_x_range(axes)),
                          bar_width.val)

\* the steps after the frequency f is settled
bars_with_freq(f, h, refs, a, axes) ==
    IF f.kind = "raise" THEN [heap |-> h, ref |-> 0, out |-> f]
    ELSE bars_with_width(calc_ts_bar_width(f.val, a.number_stacks, a.width_coef),
                         f, h, refs, a, axes)

plot_panel_ts_barstack(h, refs, a, axes) ==
    bars_with_freq(plot_ser_freq(h[refs[1]], a.ser_freq), h, refs, a, axes)

(***************************************************************************)
(* plot_panel_cs_barstack and plot_panel_num_barstack.  The values to plot *)
(* are floats, nan among them: nan >= 0 is False and a sum with nan is     *)
(* nan.  bottom_list is the record of its three lists: pos and neg are     *)
(* bottom_list[0] and [1], bottom is bottom_list[2].                       *)
(***************************************************************************)
Float(v) == [nan |-> FALSE, v |-> v]
NaN == [nan |-> TRUE, v |-> 0]
OkStack(bars) == [kind |-> "ok", of |-> "stacked-bars", val |-> bars]

\* y >= 0
ge_zero(y) == ~y.nan /\ y.v >= 0
\* x + y
float_add(x, y) == IF x.nan \/ y.nan THEN NaN ELSE Float(x.v + y.v)

\* [[0] * n, [0] * n, [0] * n]
zero_bottoms(n) ==
    [pos |-> [ind \in 1..n |-> Float(0)], neg |-> [ind \in 1..n |-> Float(0)],
     bottom |-> [ind \in 1..n |-> Float(0)]]

\* bottom_list after the inner loop over y[0], ..., y[m - 1]
stack_on(bottom_list, y, m) ==
    [pos |-> [ind \in DOMAIN bottom_list.pos |->
                 IF ind <= m /\ ge_zero(y[ind]) THEN float_add(bottom_list.pos[ind], y[ind])
                 ELSE bottom_list.pos[ind]],
     neg |-> [ind \in DOMAIN bottom_list.neg |->
                 IF ind <= m /\ ~ge_zero(y[ind]) THEN float_add(bottom_list.neg[ind], y[ind])
                 ELSE bottom_list.neg[ind]],
     bottom |-> [ind \in DOMAIN bottom_list.bottom |->
                    IF ind > m THEN bottom_list.bottom[ind]
                    ELSE IF ge_zero(y[ind]) THEN bottom_list.pos[ind]
                    ELSE bottom_list.neg[ind]]]

\* curr_ax.bar (or barh) of the values y at the places x, started at bottom
stacked_bar(x, y, bar_width, bottom, orientation) ==
    [x |-> x, height |-> y, width |-> bar_width, bottom |-> bottom,
     orientation |-> orientation]

\* the outer loop from the k-th series on, drawn holding the bars so far.  A
\* series longer than bottom_list ends the inner loop with IndexError, one
\* shorter than x ends the read of y[ind] with IndexError (n < m) or, past
\* the loop, the bar call with ValueError: x, the values and bottom do not
\* broadcast.  numpy broadcasts a length of 1, so the lists called with
\* have x of two or more places and no series of one value after a longer one.
RECURSIVE stack_from(_, _, _, _, _, _, _, _)
stack_next(stepped, y_obs, k, x, bar_width, orientation, cs, drawn) ==
    stack_from(y_obs, k + 1, x, bar_width, stepped, orientation, cs,
               Append(drawn, stacked_bar(x, y_obs[k], bar_width, stepped.bottom, orientation)))
stack_from(y_obs, k, x, bar_width, bottom_list, orientation, cs, drawn) ==
    IF k > Len(y_obs) THEN OkStack(drawn)
    ELSE IF cs /\ Len(y_obs[k]) > Len(x) THEN Raise("IndexError")
    ELSE IF ~cs /\ Len(y_obs[k]) < Len(x) THEN Raise("IndexError")
    ELSE IF Len(y_obs[k]) # Len(x) THEN Raise("ValueError")
    ELSE stack_next(stack_on(bottom_list, y_obs[k], Len(x)),
                    y_obs, k, x, bar_width, orientation, cs, drawn)

\* ser_list[0] as center_cs_obs takes it: it counts the values
counted(values) == [obs |-> [i \in DOMAIN values |-> <<i - 1, values[i].v>>]]

\* the steps after bar_locations is computed
cs_bars_at(bar_locations, ser_list, bar_width, orientation) ==
    IF bar_locations.kind = "raise" THEN bar_locations
    ELSE stack_from(ser_list, 1, bar_locations.val, bar_width,
                    zero_bottoms(Len(ser_list[1])), orientation, TRUE, <<>>)

plot_panel_cs_barstack(ser_list, number_stacks, curr_stack, pos_adj, bar_width_coef, orientation) ==
    IF number_stacks = 0 THEN Raise("ZeroDivisionError")
    ELSE IF ser_list = <<>> THEN Raise("IndexError")
    ELSE cs_bars_at(center_cs_obs(counted(ser_list[1]), number_stacks, curr_stack,
                                  bar_width_coef, pos_adj),
                    ser_list, QQuot(bar_width_coef, Num(number_stacks)),
                    IF orientation = "vertical" THEN "vertical" ELSE "horizontal")

\* min([x_obs[j] - x_obs[j - 1] for j in range(1, len(x_obs))]) * bar_width_coef
num_bar_width(x_obs, bar_width_coef) ==
    LET steps == {x_obs[j] - x_obs[j - 1] : j \in 2..Len(x_obs)}
    IN  QMul(Num(CHOOSE d \in steps : \A e \in steps : d <= e), bar_width_coef)

plot_panel_num_barstack(x_obs, y_obs, bar_width, bar_width_coef) ==
    IF bar_width = Nothing /\ Len(x_obs) <= 1 THEN Raise("AssertionError")
    ELSE stack_from(y_obs, 1, x_obs,
                    IF bar_width = Nothing THEN num_bar_width(x_obs, bar_width_coef)
                    ELSE bar_width[1],
                    zero_bottoms(Len(x_obs)), "vertical", FALSE, <<>>)

(***************************************************************************)
(* gen_ts_tick_label_range                                                 *)
(***************************************************************************)
\* Timestamp.weekday(): Monday = 0; CalYear0-01-01 (2019-01-01) is a Tuesday
weekday(day) == (day + 1) % 7

\* a date's months since CalYear0-01 and back
MonthIndex(y, m) == (y - CalYear0) * 12 + (m - 1)
MonthStartDay(mi) == DayNumber(CalYear0 + (mi \div 12), (mi % 12) + 1, 1)

\* from, from + step, ... up to to (day numbers), as timestamps
day_steps(from, to, step) ==
    IF from > to THEN <<>>
    ELSE [i \in 1..(((to - from) \div step) + 1) |-> (from + (i - 1) * step) * TicksPerDay]

RECURSIVE month_steps(_, _, _)
month_steps(mi, to, step) ==
    IF MonthStartDay(mi) > to THEN <<>>
    ELSE <<MonthStartDay(mi) * TicksPerDay>> \o month_steps(mi + step, to, step)

\* every step-th business day of from..to, starting with the first
bday_steps(from, to, step) ==
    LET bdays == SelectSeq(day_steps(from, to, 1), LAMBDA t : weekday(DayOfTick(t)) < 5)
    IN  IF bdays = <<>> THEN <<>>
        ELSE [i \in 1..(((Len(bdays) - 1) \div step) + 1) |-> bdays[(i - 1) * step + 1]]

RECURSIVE next_weekday(_, _)
next_weekday(day, wd) == IF weekday(day) = wd THEN day ELSE next_weekday(day + 1, wd)

\* the first month index >= the date whose month start is on or after the date
\* and whose month number is a multiple of stride away from January
RECURSIVE first_anchor(_, _, _)
first_anchor(mi, from, stride) ==
    IF mi % stride = 0 /\ MonthStartDay(mi) >= from THEN mi
    ELSE first_anchor(mi + 1, from, stride)

\* pd.date_range(start, end, freq = name) for the frequency strings the code
\* can form; n is the multiple in front of the name, "" counting as 1
date_range(start, end, n, name) ==
    LET d1 == DayOfTick(start)
        d2 == DayOfTick(end)
        m1 == LET ymd == DateOfDay(d1) IN MonthIndex(ymd[1], ymd[2])
    IN  IF name = "D" THEN OkDates(day_steps(d1, d2, n))
        ELSE IF name = "B" THEN OkDates(bday_steps(d1, d2, n))
        ELSE IF name = "W" THEN OkDates(day_steps(next_weekday(d1, 6), d2, 7 * n))
        ELSE IF name = "MS" THEN OkDates(month_steps(first_anchor(m1, d1, 1), d2, n))
        ELSE IF name = "QS" THEN OkDates(month_steps(first_anchor(m1, d1, 3), d2, 3 * n))
        ELSE IF name = "YS" THEN OkDates(month_steps(first_anchor(m1, d1, 12), d2, 12 * n))
        ELSE Raise("ValueError")

tick_freq_dict ==
    LET opts == {"S", "MIN", "H", "D", "B", "W", "M", "Q", "A", "Y"}
    IN  [o \in opts |-> IF o = "A" THEN "Y"
                        ELSE IF o \in {"S", "MIN", "H"} THEN lower(o) ELSE o]

gen_ts_tick_label_range(start, end, freq, skip) ==
    LET code == upper(freq)
    IN  IF code \notin DOMAIN tick_freq_dict THEN Raise("KeyError")
        ELSE
          LET name == tick_freq_dict[code]
              suffix == IF name \notin {"S", "MIN", "H", "D", "B", "W"} THEN "S" ELSE ""
          IN  date_range(Timestamp(start), Timestamp(end),
                         IF skip = Nothing THEN 1 ELSE skip[1], name \o suffix)

(***************************************************************************)
(* Inputs of the calls.                                                    *)
(***************************************************************************)
Day(y, m, d) == DayNumber(y, m, d) * TicksPerDay
MonthEnd(mi) == (MonthStartDay(mi + 1) - 1) * TicksPerDay

\* n observations valued 1..n at the given positions
Obs(pos, n) == [i \in 1..n |-> <<pos[i], i>>]

DailySeries(n) == Series(Obs([i \in 1..n |-> Day(2020, 1, i)], n), "<Day>")
MonthlySeries(y, m, n) ==
    Series(Obs([i \in 1..n |-> MonthEnd(MonthIndex(y, m) + i - 1)], n), "<MonthEnd>")
SemiAnnualSeries(m, n) ==
    Series(Obs([i \in 1..n |-> MonthEnd(MonthIndex(2020, m) + 6 * (i - 1))], n), SemiAnnual)
MinuteSeries(n) ==
    Series(Obs([i \in 1..n |-> Day(2020, 1, 1) + 60 * (i - 1)], n), "<Minute>")
\* a DatetimeIndex that stores no freq
IrregularSeries ==
    Series(<<<<Day(2020, 1, 1), 1>>, <<Day(2020, 1, 3) + 12 * 60 * 60, 2>>,
             <<Day(2020, 2, 10), 3>>>>, "None")

SeriesInputs ==
    {DailySeries(MaxLen), MonthlySeries(2020, 5, MaxLen), MonthlySeries(2021, 1, 1),
     SemiAnnualSeries(3, 2), SemiAnnualSeries(6, 2), MinuteSeries(MaxLen - 1),
     IrregularSeries, Series(<<>>, SemiAnnual)}

\* a monthly series indexed by periods
MonthlyPeriodSeries(y, m, n) ==
    PeriodSeries(Obs([i \in 1..n |-> MonthStartDay(MonthIndex(y, m) + i - 1) * TicksPerDay], n),
                 "<MonthEnd>")
\* a DatetimeIndex too short for a freq to be inferred, storing none
ShortSeries == Series(<<<<Day(2020, 3, 2), 5>>, <<Day(2020, 3, 9), -2>>>>, "None")

PlotSeriesInputs == SeriesInputs \cup {MonthlyPeriodSeries(2020, 5, MaxLen - 1), ShortSeries}

XLims == {<<Num(0), Num(1)>>, <<Num(2), Num(2)>>,
          <<date2num(Day(2020, 1, 1)), date2num(Day(2020, 12, 31))>>}
YLims == {<<Num(-5), Num(3)>>, <<Num(-1), Num(-1)>>}

DataCoords ==
    {NumCoord(Num(0)), NumCoord(Rat(1, 2)), NumCoord(Num(3)), NumCoord(Rat(-7, 4)),
     NumCoord(date2num(Day(2020, 3, 1))),
     DateCoord(2020, 1, 1), DateCoord(2020, 7, 1), PeriodCoord(2020, 10, 1)}
FixedCoords == {Num(0), Rat(1, 2), Num(1), Rat(-1, 10), Rat(11, 10)}

\* the days of the observations of s, and the day after the first of them
RangeDays(s) ==
    {DayOfTick(s.obs[i][1]) : i \in DOMAIN s.obs}
        \cup {DayOfTick(s.obs[i][1]) + 1 : i \in DOMAIN s.obs \cap {1}}

DateCoordOfDay(n) == LET ymd == DateOfDay(n) IN DateCoord(ymd[1], ymd[2], ymd[3])

\* x ranges given as dates and as date ordinals (the form get_xlim returns)
XRanges(s) ==
    LET days == RangeDays(s) \cup {DayNumber(2020, 1, 1)}
        pairs == {p \in days \X days : p[1] <= p[2]}
    IN  {<<DateCoordOfDay(p[1]), DateCoordOfDay(p[2])>> : p \in pairs}
        \cup {<<NumCoord(QAdd(Num(p[1] + EpochOrdinal), Rat(1, 4))),
                NumCoord(QAdd(Num(p[2] + EpochOrdinal), Rat(3, 4)))>> : p \in pairs}

StackCounts == 0..MaxStacks
WidthCoefs == {Num(1), Rat(4, 5)}
PosAdjs == {Num(0), Rat(1, 2)}

CenterArg(f, n, c, w, p) ==
    [ser_freq |-> f, number_stacks |-> n, curr_stack |-> c, width_coef |-> w, pos_adj |-> p]

\* the shorthand codes of center_ts_obs's docstring
DocumentedShorthands ==
    {"min", "h", "d", "b", "w", "m", "6m", "q", "2q", "a", "y"}
        \cup prefixed(MinuteSkips, "min") \cup prefixed(HourSkips, "h")

\* the first letter in upper case, as in "Min" or "5Min"
capitalize_unit(s) ==
    LET i == CHOOSE j \in 1..Len(s) :
                 /\ \E k \in 1..26 : CharAt(LowerAlpha, k) = CharAt(s, j)
                 /\ \A l \in 1..(j - 1) : \A k \in 1..26 : CharAt(LowerAlpha, k) # CharAt(s, l)
    IN  SubSeq(s, 1, i - 1) \o upper(CharAt(s, i)) \o SubSeq(s, i + 1, Len(s))

UnknownFreqs == {"x", "3min", "7h", "<Fortnight>", "None", "<5 * Minutes>"}

CenterArgs ==
    {CenterArg(f, n, c, w, p) :
        f \in {Nothing, Some("m"), Some("2q")},
        n \in StackCounts, c \in 1..MaxStacks, w \in WidthCoefs, p \in PosAdjs}
    \cup {CenterArg(Some(f), 1, 1, Num(1), Num(0)) :
            f \in DocumentedShorthands \cup {upper(g) : g \in DocumentedShorthands}
                  \cup {capitalize_unit(g) : g \in DocumentedShorthands} \cup UnknownFreqs}

\* width_coef Nothing: the argument is left out
BarWidthArg(f, n, w) == [freq |-> f, number_stacks |-> n, width_coef |-> w]

BarWidthArgs ==
    {BarWidthArg(f, MaxStacks, Num(1)) :
        f \in DOMAIN bar_freq_dict \cup DOMAIN center_freq_dict \cup UnknownFreqs}
    \cup {BarWidthArg(f, n, w) : f \in {"<Minute>", "<QuarterEnd: startingMonth=12>"},
                                 n \in (-MaxStacks)..MaxStacks,
                                 w \in WidthCoefs \cup {Nothing}}

\* center_cs_obs takes no frequency
CsArgs ==
    {CenterArg(Nothing, n, c, w, p) :
        n \in (-1)..MaxStacks, c \in 1..MaxStacks, w \in WidthCoefs, p \in PosAdjs}

\* arguments of the plot_panel_ts_* methods
PlotArgs ==
    {CenterArg(f, d[1], d[2], d[3], d[4]) :
        f \in {Nothing, Some("m"), Some("2Q"), Some("5min"), Some("x")},
        d \in {<<1, 1, Num(1), Num(0)>>, <<MaxStacks, MaxStacks, Rat(4, 5), Rat(1, 2)>>}}

\* a second series for a bar stack
Companion ==
    Series(<<<<MonthEnd(MonthIndex(2020, 6)), -3>>, <<MonthEnd(MonthIndex(2020, 7)), 2>>>>,
           "<MonthEnd>")

\* ser_list: the caller's series alone, or before or after the companion
SerLists == {<<1>>, <<1, 2>>, <<2, 1>>}

\* the values of one stacked series at two places: of both signs, with a
\* zero, and with a missing value
StackedValues ==
    {<<Float(1), Float(-1)>>, <<Float(-2), Float(0)>>, <<NaN, Float(2)>>}

\* y_obs, or ser_list of plot_panel_cs_barstack: one or two series of two
\* values, three series, and lists whose second series is longer or has no
\* values
StackLists ==
    UNION {[1..n -> StackedValues] : n \in 1..2}
        \cup {<<<<Float(1), Float(-1)>>, <<Float(-2), Float(0)>>, <<Float(1), Float(-1)>>>>,
              <<<<Float(-2), Float(0)>>, <<NaN, Float(2)>>, <<Float(-2), Float(0)>>>>,
              <<<<Float(1), Float(-1)>>, <<Float(1), Float(-1), Float(1)>>>>,
              <<<<Float(1), Float(-1)>>, <<>>>>}

CsBarArg(l, n, o) ==
    [ser_list |-> l, number_stacks |-> n, curr_stack |-> 1, pos_adj |-> Num(0),
     bar_width_coef |-> Rat(4, 5), orientation |-> o]

CsBarArgs ==
    {CsBarArg(l, 2, "vertical") : l \in StackLists}
        \cup {CsBarArg(<<<<Float(1), Float(-1)>>>>, n, "sideways") : n \in {0, 1}}

\* bar_width Nothing: the argument is left out
NumBarArg(x, y, w) == [x_obs |-> x, y_obs |-> y, bar_width |-> w, bar_width_coef |-> Num(1)]

NumBarArgs ==
    {NumBarArg(<<0, 2>>, y, Nothing) : y \in StackLists}
        \cup {NumBarArg(<<3>>, <<<<Float(1)>>>>, Nothing),
              NumBarArg(<<0, 2>>, <<<<Float(1), Float(-1)>>>>, Some(Num(1)))}

\* weight lists for n rows or columns: left out, of the right length
\* (decreasing from n, or all 0), one too long and one too short
WeightLists(n) ==
    {Nothing, Some(ones(n + 1))}
        \cup (IF n >= 1 THEN {Some([i \in 1..n |-> Num(n + 1 - i)]),
                              Some([i \in 1..n |-> Num(0)]),
                              Some(ones(n - 1))}
              ELSE {})

DimSpecs == {<<n, w>> : n \in (-1)..MaxGrid, w \in UNION {WeightLists(m) : m \in (-1)..MaxGrid}}
               \cap UNION {{<<n, w>> : w \in WeightLists(n)} : n \in (-1)..MaxGrid}

\* h_start, h_end, v_start, v_end
Grids == {<<Num(0), Num(1), Num(0), Num(1)>>, <<Num(0), Num(3), Rat(1, 4), Num(1)>>}

PartitionArg(g, r, c) ==
    [h_start |-> g[1], h_end |-> g[2], v_start |-> g[3], v_end |-> g[4],
     nrow |-> r[1], ncol |-> c[1], relative_row_sizes |-> r[2], relative_col_sizes |-> c[2]]

PartitionArgs ==
    {PartitionArg(g, r, <<2, Nothing>>) : g \in Grids, r \in DimSpecs}
        \cup {PartitionArg(g, <<2, Nothing>>, c) : g \in Grids, c \in DimSpecs}

TickRangeArg(a, b, f, k) == [start |-> a, end |-> b, freq |-> f, skip |-> k]

TickRangeArgs ==
    {TickRangeArg(a, b, f, k) :
        a \in {DateCoord(2019, 1, 1), DateCoord(2020, 1, 1), PeriodCoord(2020, 2, 15)},
        b \in {DateCoord(2020, 12, 31)},
        f \in {"W", "m", "Q", "A", "y"},
        k \in {Nothing, Some(2)}}
    \cup {TickRangeArg(a, b, f, k) :
        a \in {DateCoord(2020, 1, 1), PeriodCoord(2020, 2, 15)},
        b \in {DateCoord(2020, 3, 31)},
        f \in {"S", "MIN", "h", "D", "b", "T"},
        k \in {Nothing, Some(2)}}

(***************************************************************************)
(* Exhibit.format_panel_ts_xaxis: tick positions and centred date labels.  *)
(* A label date is a timestamp; stored_freq says what its freq attribute   *)
(* is: "absent" (no such attribute), "None", or str() of a stored offset.  *)
(***************************************************************************)
\* str.find(sub) > -1
contains(s, sub) ==
    \E i \in 1..(Len(s) - Len(sub) + 1) : SubSeq(s, i, i + Len(sub) - 1) = sub

\* s[re.search(r'[a-zA-Z]', s).start()]
first_letter(s) ==
    LET alpha == UpperAlpha \o LowerAlpha
        is_alpha(i) == \E j \in 1..Len(alpha) : CharAt(alpha, j) = CharAt(s, i)
    IN  CharAt(s, CHOOSE i \in 1..Len(s) : is_alpha(i) /\ \A k \in 1..(i - 1) : ~is_alpha(k))

\* the frequency a label format implies, looking at the finest code first
freq_from_fmt_coarsest_first(label_fmt, irregular_month_fmt) ==
    IF irregular_month_fmt THEN "M"
    ELSE IF contains(label_fmt, "%m") \/ contains(label_fmt, "%b")
            \/ contains(label_fmt, "%B") THEN "M"
    ELSE IF contains(label_fmt, "%d") THEN "D"
    ELSE IF contains(label_fmt, "%H") THEN "h"
    ELSE IF contains(label_fmt, "%M") THEN "min"
    ELSE IF contains(label_fmt, "%S") THEN "s"
    ELSE "Y"

freq_from_fmt(label_fmt, irregular_month_fmt) ==
    IF irregular_month_fmt THEN "M"
    ELSE IF contains(label_fmt, "%S") THEN "s"
    ELSE IF contains(label_fmt, "%M") THEN "min"
    ELSE IF contains(label_fmt, "%H") THEN "h"
    ELSE IF contains(label_fmt, "%d") THEN "D"
    ELSE IF contains(label_fmt, "%m") \/ contains(label_fmt, "%b")
            \/ contains(label_fmt, "%B") THEN "M"
    ELSE "Y"

\* pd.infer_freq of a list of timestamps: of the regular spacings the ones
\* the label dates here can have, anything else being None
infer_freq_dates(dates) ==
    LET n == Len(dates)
        mi(i) == LET ymd == DateOfDay(DayOfTick(dates[i])) IN MonthIndex(ymd[1], ymd[2])
    IN  IF \A i \in 1..(n - 1) : dates[i + 1] - dates[i] = TicksPerDay THEN "D"
        ELSE IF /\ \A i \in 1..n : dates[i] = MonthStartDay(mi(i)) * TicksPerDay
                /\ \A i \in 1..(n - 1) : mi(i + 1) = mi(i) + 1 THEN "MS"
        ELSE "None"

label_dates_freq_dict ==
    LET keys == {"s", "min", "h", "d", "b", "w", "m", "q", "a", "y"}
    IN  [x \in keys |-> IF x = "a" THEN "Y"
                        ELSE IF x \in {"s", "min", "h"} THEN x ELSE upper(x)]

\* n copies of x: [x] * n
repeat(x, n) == [i \in 1..n |-> x]

\* str() of the entries label_dates_freqs ends up with, or the error raised
resolve_label_freqs(label_dates, stored_freq, label_fmt, irregular_month_fmt, label_dates_freqs, infer_freq_from_fmt) ==
    LET n == Len(label_dates)
    IN  IF label_dates_freqs = Nothing
        THEN IF n = 0 THEN Raise("ValueError")
             ELSE IF stored_freq \notin {"absent", "None"} THEN OkList(repeat(stored_freq, n))
             ELSE IF infer_freq_from_fmt
                  THEN OkList(repeat(period_freq_str(
                           freq_from_fmt(IF label_fmt = Nothing THEN "" ELSE label_fmt[1],
                                         irregular_month_fmt)), n))
             ELSE IF n < 3 THEN Raise("AssertionError")
             ELSE OkList(repeat(infer_freq_dates(label_dates), n))
        ELSE LET given == label_dates_freqs[1]
                 full == IF Len(given) # n
                         THEN [i \in 1..(Len(given) * n) |-> given[((i - 1) % Len(given)) + 1]]
                         ELSE given
             IN  IF Len(given) \notin {1, n} THEN Raise("AssertionError")
                 ELSE IF \E i \in DOMAIN full : lower(full[i]) \notin DOMAIN label_dates_freq_dict
                      THEN Raise("KeyError")
                 ELSE OkList([i \in DOMAIN full |->
                                  period_freq_str(label_dates_freq_dict[lower(full[i])])])

\* dummy_range.freq in ticks: one unit of a frequency finer than the labels'
dummy_freq(freq_str) ==
    IF contains(freq_str, "Sec") \/ contains(freq_str, "Min") THEN 1
    ELSE IF contains(freq_str, "Hour") THEN 60
    ELSE IF contains(freq_str, "Day") THEN 60 * 60
    ELSE TicksPerDay

current_date_freq(freq_str) ==
    LET c == first_letter(freq_str)
    IN  IF c \in {"S", "H"} THEN lower(c)
        ELSE IF contains(lower(freq_str), "min") THEN "min"
        ELSE c

\* the last day of the first month from mi on that closes a period of stride
\* months and ends after day
RECURSIVE next_period_end(_, _, _)
next_period_end(mi, day, stride) ==
    IF (mi + 1) % stride = 0 /\ MonthStartDay(mi + 1) - 1 > day
    THEN MonthStartDay(mi + 1) - 1
    ELSE next_period_end(mi + 1, day, stride)

\* tmp_date + 1 * tmp_period.freq: a fixed step, or a roll to the next end
\* of a month, quarter or year that keeps the time of day
plus_period(t, unit) ==
    LET day == DayOfTick(t)
        ymd == DateOfDay(day)
        roll(stride) ==
            next_period_end(MonthIndex(ymd[1], ymd[2]), day, stride) * TicksPerDay
                + (t - day * TicksPerDay)
    IN  CASE unit = "s" -> t + 1
          [] unit = "min" -> t + 60
          [] unit = "h" -> t + 60 * 60
          [] unit = "D" -> t + TicksPerDay
          [] unit = "N" -> t
          [] unit = "M" -> roll(1)
          [] unit = "Q" -> roll(3)
          [] unit = "Y" -> roll(12)

next_period_number(t, freq_str, dummy) ==
    date2num(plus_period(t, current_date_freq(freq_str)) + dummy)

\* a float and whether it is a numpy float (date2num's are; the axis limits
\* are what the axis holds)
Mark(v, np) == [v |-> v, np |-> np]

\* min() and max() of a list return the first of equal elements
RECURSIVE first_min(_)
first_min(marks) ==
    IF Len(marks) = 1 THEN marks[1]
    ELSE LET rest == first_min(Tail(marks))
         IN  IF QLt(rest.v, marks[1].v) THEN rest ELSE marks[1]

RECURSIVE first_max(_)
first_max(marks) ==
    IF Len(marks) = 1 THEN marks[1]
    ELSE LET rest == first_max(Tail(marks))
         IN  IF QLt(marks[1].v, rest.v) THEN rest ELSE marks[1]

\* a window between the axis limits whatever the ticks
label_window_ignoring_ticks(sig_xpos, label_num, next_num, a) ==
    [kind |-> "ok",
     min_mark |-> first_max(<<Mark(get_xlim(a)[1], a.np64), Mark(label_num, TRUE)>>),
     max_mark |-> first_min(<<Mark(get_xlim(a)[2], a.np64), Mark(next_num, TRUE)>>)]

\* if max_mark == min_mark: max_mark = curr_ax.get_xlim()[1]
window_of(min_mark, max_mark, a) ==
    [kind |-> "ok", min_mark |-> min_mark,
     max_mark |-> IF max_mark.v = min_mark.v THEN Mark(get_xlim(a)[2], a.np64) ELSE max_mark]

\* min() and max() of the two list comprehensions; of an empty one an error
window_between(right, left, a) ==
    IF right = <<>> \/ left = <<>> THEN Raise("ValueError")
    ELSE window_of(first_min(right), first_max(left), a)

\* min_mark and max_mark under tick_based_label_centering
label_window(sig_xpos, label_num, next_num, a) ==
    window_between(SelectSeq(sig_xpos, LAMBDA m : ~QLt(m.v, label_num)),
                   SelectSeq(sig_xpos, LAMBDA m : ~QLt(next_num, m.v)), a)

\* min_mark and max_mark of a label, or the error finding them raises
label_marks(label_num, next_num, sig_xpos, center_labels, tick_based_label_centering, a) ==
    IF ~center_labels
    THEN [kind |-> "ok", min_mark |-> Mark(label_num, TRUE), max_mark |-> Mark(label_num, TRUE)]
    ELSE IF tick_based_label_centering
    THEN label_window(sig_xpos, label_num, next_num, a)
    ELSE label_window_ignoring_ticks(sig_xpos, label_num, next_num, a)

\* curr_ax.text at the normalized position fixed
label_text(t, fixed, label_xoffset, a) ==
    IF fixed.kind # "ok" THEN fixed
    ELSE [kind |-> "ok",
          val |-> [date |-> t,
                   x |-> IF get_xlim(a)[1] = get_xlim(a)[2] THEN NonFinite
                         ELSE QAdd(fixed.val, label_xoffset)]]

\* xlabel_pos = (min_mark + max_mark) / 2, a numpy float unless both marks
\* are plain axis limits, and data2fixed of it
label_at(t, w, label_xoffset, a) ==
    IF w.kind # "ok" THEN w
    ELSE label_text(t, data2fixed(NumCoord(QQuot(QAdd(w.min_mark.v, w.max_mark.v), Num(2))),
                                  [a EXCEPT !.np64 = a.np64 \/ w.min_mark.np \/ w.max_mark.np],
                                  0),
                    label_xoffset, a)

\* the text placed for one label date, or the error placing it raises
place_label(t, freq_str, dummy, sig_xpos, center_labels, tick_based_label_centering, label_xoffset, a) ==
    label_at(t, label_marks(date2num(t), next_period_number(t, freq_str, dummy), sig_xpos,
                            center_labels, tick_based_label_centering, a),
             label_xoffset, a)

\* the labels placed for label dates i.. in turn, up to the first error
RECURSIVE place_labels(_, _, _, _, _, _, _, _, _)
labels_cons(one, rest) ==
    IF rest.kind # "ok" THEN rest ELSE OkList(<<one.val>> \o rest.val)
labels_after(one, i, label_dates, freqs, dummy, sig_xpos, center_labels, tick_based_label_centering, label_xoffset, a) ==
    IF one.kind # "ok" THEN one
    ELSE labels_cons(one, place_labels(i + 1, label_dates, freqs, dummy, sig_xpos,
                                       center_labels, tick_based_label_centering,
                                       label_xoffset, a))
place_labels(i, label_dates, freqs, dummy, sig_xpos, center_labels, tick_based_label_centering, label_xoffset, a) ==
    IF i > Len(label_dates) THEN OkList(<<>>)
    ELSE labels_after(place_label(label_dates[i], freqs[i], dummy, sig_xpos, center_labels,
                                  tick_based_label_centering, label_xoffset, a),
                      i, label_dates, freqs, dummy, sig_xpos, center_labels,
                      tick_based_label_centering, label_xoffset, a)

\* what the axis shows after the call: the tick positions set, the label
\* frequencies settled on and the label texts placed
OkAxis(minor, major, freqs, labels) ==
    [kind |-> "ok", of |-> "xaxis",
     val |-> [minor |-> minor, major |-> major, freqs |-> freqs, labels |-> labels]]

\* list(mdates.date2num(dates))
date2num_list(dates) == [i \in DOMAIN dates |-> date2num(dates[i])]

\* minor_pos and major_pos as the function goes on with them
minor_ticks(args) == IF args.minor_pos # Nothing THEN args.minor_pos[1] ELSE <<>>
major_ticks(a, args) ==
    IF args.major_pos # Nothing THEN OkDates(args.major_pos[1])
    ELSE IF args.mark_years
    THEN gen_ts_tick_label_range(DateCoordOfDay(num2date_day(get_xlim(a)[1])),
                                 DateCoordOfDay(num2date_day(get_xlim(a)[2])), "Y", Nothing)
    ELSE OkDates(<<>>)

sig_xpos_of(minor_pos, major_pos, a) ==
    [i \in DOMAIN minor_pos |-> Mark(date2num(minor_pos[i]), TRUE)]
        \o [i \in DOMAIN major_pos |-> Mark(date2num(major_pos[i]), TRUE)]
        \o <<Mark(get_xlim(a)[1], a.np64), Mark(get_xlim(a)[2], a.np64)>>

\* the call's outcome once the label loop has run
labelled(minor_pos, major_pos, freqs, labels) ==
    IF labels.kind # "ok" THEN labels
    ELSE OkAxis(date2num_list(minor_pos), date2num_list(major_pos), freqs, labels.val)

\* the steps after label_dates_freqs is settled
label_with_freqs(minor_pos, major_pos, label_dates, freqs, args, a) ==
    IF freqs.kind # "ok" THEN freqs
    ELSE IF freqs.val = <<>> THEN Raise("IndexError")
    ELSE labelled(minor_pos, major_pos, freqs.val,
                  place_labels(1, label_dates, freqs.val, dummy_freq(freqs.val[1]),
                               sig_xpos_of(minor_pos, major_pos, a), args.center_labels,
                               args.tick_based_label_centering, args.label_xoffset, a))

\* the steps after the tick locators are set
xaxis_with_ticks(minor_pos, major_pos, a, args) ==
    IF major_pos.kind # "ok" THEN major_pos
    ELSE IF args.label_dates = Nothing
            \/ (args.label_fmt = Nothing /\ ~args.irregular_month_fmt)
    THEN OkAxis(date2num_list(minor_pos), date2num_list(major_pos.val), <<>>, <<>>)
    ELSE label_with_freqs(minor_pos, major_pos.val, args.label_dates[1],
                          resolve_label_freqs(args.label_dates[1], args.stored_freq,
                                              args.label_fmt, args.irregular_month_fmt,
                                              args.label_dates_freqs,
                                              args.infer_freq_from_fmt),
                          args, a)

format_panel_ts_xaxis(a, args) ==
    xaxis_with_ticks(minor_ticks(args), major_ticks(a, args), a, args)

\* the calls of format_panel_ts_xaxis: one full call, varied one or two
\* arguments at a time
TickLists ==
    {Nothing, Some(<<Day(2020, 7, 1)>>),
     Some(<<Day(2020, 1, 1), Day(2020, 2, 1), Day(2020, 7, 1), Day(2020, 8, 1)>>)}
LabelLists ==
    {<<Day(2020, 1, 1), Day(2020, 7, 1)>>, <<Day(2020, 7, 1), Day(2020, 12, 1)>>,
     <<Day(2020, 1, 1), Day(2020, 2, 1), Day(2020, 3, 1)>>}
LabelFmts ==
    {"%Y", "%b", "%B %Y", "%m/%d/%Y", "%d %b", "%H:%M", "%M:%S", "%Y-%m-%d %H:%M:%S",
     "%H", "Q", ""}
StoredFreqs == {"absent", "None", "<YearEnd: month=12>"}

XaxisCall ==
    [minor_pos |-> Some(<<Day(2020, 7, 1)>>), major_pos |-> Nothing, mark_years |-> FALSE,
     label_dates |-> Some(<<Day(2020, 1, 1), Day(2020, 7, 1)>>), stored_freq |-> "absent",
     label_fmt |-> Some("%b"), irregular_month_fmt |-> FALSE, center_labels |-> TRUE,
     tick_based_label_centering |-> TRUE, label_dates_freqs |-> Nothing,
     infer_freq_from_fmt |-> TRUE, label_xoffset |-> Num(0)]

XaxisArgs ==
    {[XaxisCall EXCEPT !.minor_pos = m, !.label_dates = Some(l), !.center_labels = c[1],
                       !.tick_based_label_centering = c[2]] :
        m \in TickLists, l \in LabelLists,
        c \in {<<TRUE, TRUE>>, <<TRUE, FALSE>>, <<FALSE, TRUE>>}}
    \cup {[XaxisCall EXCEPT !.label_fmt = Some(f), !.irregular_month_fmt = i,
                            !.stored_freq = s] :
             f \in LabelFmts, i \in BOOLEAN, s \in {"absent", "None"}}
    \cup {[XaxisCall EXCEPT !.label_dates = Some(l), !.stored_freq = s, !.label_fmt = f,
                            !.infer_freq_from_fmt = FALSE] :
             l \in LabelLists \cup {<<>>, <<Day(2020, 7, 1)>>}, s \in StoredFreqs,
             f \in {Nothing, Some("%b")}}
    \cup {[XaxisCall EXCEPT !.label_dates_freqs = Some(fs), !.major_pos = mj,
                            !.label_xoffset = Rat(1, 100)] :
             fs \in {<<"M">>, <<"q", "D">>, <<"x">>, <<"M", "M", "M">>},
             mj \in {Nothing, Some(<<Day(2020, 10, 1)>>)}}
    \cup {[XaxisCall EXCEPT !.mark_years = TRUE, !.label_dates = l] :
             l \in {Nothing, Some(<<Day(2020, 1, 1)>>)}}

(***************************************************************************)
(* The state machine: a caller holding an axis object and a series calls   *)
(* the module's functions one at a time and takes each result.             *)
(***************************************************************************)
Idle == [op |-> "idle"]
\* the caller has made no Exhibit
NoFigure == [np64 |-> TRUE, layout |-> <<1, 1>>, axes |-> <<>>, drawn |-> 0]

Init ==
    /\ ax \in [xlim : XLims, ylim : YLims, np64 : BOOLEAN]
    /\ ser \in PlotSeriesInputs
    /\ call = Idle
    /\ ret = NoResult
    /\ res = 0
    /\ panel_dict = <<>>
    /\ fig = NoFigure

\* the backend's Axes.set_xlim / set_ylim
set_xlim(lim) ==
    /\ call = Idle
    /\ ax' = [ax EXCEPT !.xlim = lim]
    /\ UNCHANGED <<ser, call, ret, res, exhibit>>

set_ylim(lim) ==
    /\ call = Idle
    /\ ax' = [ax EXCEPT !.ylim = lim]
    /\ UNCHANGED <<ser, call, ret, res, exhibit>>

Data2fixed(coord, axis) ==
    /\ call = Idle
    /\ call' = [op |-> "data2fixed", coord |-> coord, axis |-> axis]
    /\ ret' = data2fixed(coord, ax, axis)
    /\ res' = 0
    /\ UNCHANGED <<ax, ser, exhibit>>

Fixed2data(coord, axis) ==
    /\ call = Idle
    /\ call' = [op |-> "fixed2data", coord |-> coord, axis |-> axis]
    /\ ret' = fixed2data(coord, ax, axis)
    /\ res' = 0
    /\ UNCHANGED <<ax, ser, exhibit>>

\* the call hands back r.out; r.ref is the object returned and r.heap[1] what
\* has become of the caller's series
Returned(r) == ret' = r.out /\ res' = r.ref /\ ser' = r.heap[1]

ImposeTsXrange(x_range) ==
    /\ call = Idle
    /\ call' = [op |-> "impose_ts_xrange", x_range |-> x_range]
    /\ Returned(impose_ts_xrange_obj(<<ser>>, 1, x_range))
    /\ UNCHANGED <<ax, exhibit>>

CalcTsBarWidth(a) ==
    /\ call = Idle
    /\ call' = [op |-> "calc_ts_bar_width", args |-> a]
    /\ ret' = calc_ts_bar_width(a.freq, a.number_stacks,
                                IF a.width_coef = Nothing THEN Num(1) ELSE a.width_coef)
    /\ res' = 0
    /\ UNCHANGED <<ax, ser, exhibit>>

CenterTsObs(a) ==
    /\ call = Idle
    /\ call' = [op |-> "center_ts_obs", args |-> a]
    /\ Returned(center_ts_obs_obj(<<ser>>, 1, a.ser_freq, a.number_stacks, a.curr_stack,
                                   a.width_coef, a.pos_adj))
    /\ UNCHANGED <<ax, exhibit>>

PeriodToTs ==
    /\ call = Idle
    /\ call' = [op |-> "period_to_ts"]
    /\ Returned(period_to_ts_obj(<<ser>>, 1))
    /\ UNCHANGED <<ax, exhibit>>

CenterCsObs(a) ==
    /\ call = Idle
    /\ call' = [op |-> "center_cs_obs", args |-> a]
    /\ ret' = center_cs_obs(ser, a.number_stacks, a.curr_stack, a.width_coef, a.pos_adj)
    /\ res' = 0
    /\ UNCHANGED <<ax, ser, exhibit>>

PlotPanelTsLine(a) ==
    /\ call = Idle
    /\ call' = [op |-> "plot_panel_ts_line", args |-> a]
    /\ Returned(plot_panel_ts_points(<<ser>>, 1, a, ax))
    /\ UNCHANGED <<ax, exhibit>>

PlotPanelTsScatter(a) ==
    /\ call = Idle
    /\ call' = [op |-> "plot_panel_ts_scatter", args |-> a]
    /\ Returned(plot_panel_ts_points(<<ser>>, 1, a, ax))
    /\ UNCHANGED <<ax, exhibit>>

PlotPanelTsBarstack(a, ser_list) ==
    /\ call = Idle
    /\ call' = [op |-> "plot_panel_ts_barstack", args |-> a, ser_list |-> ser_list]
    /\ Returned(plot_panel_ts_barstack(<<ser, Companion>>, ser_list, a, ax))
    /\ UNCHANGED <<ax, exhibit>>

PlotPanelCsBarstack(a) ==
    /\ call = Idle
    /\ call' = [op |-> "plot_panel_cs_barstack", args |-> a]
    /\ ret' = plot_panel_cs_barstack(a.ser_list, a.number_stacks, a.curr_stack, a.pos_adj,
                                     a.bar_width_coef, a.orientation)
    /\ res' = 0
    /\ UNCHANGED <<ax, ser, exhibit>>

PlotPanelNumBarstack(a) ==
    /\ call = Idle
    /\ call' = [op |-> "plot_panel_num_barstack", args |-> a]
    /\ ret' = plot_panel_num_barstack(a.x_obs, a.y_obs, a.bar_width, a.bar_width_coef)
    /\ res' = 0
    /\ UNCHANGED <<ax, ser, exhibit>>

FormPartition(a) ==
    /\ call = Idle
    /\ call' = [op |-> "form_partition", args |-> a]
    /\ ret' = form_partition(a.h_start, a.h_end, a.v_start, a.v_end, a.nrow, a.ncol,
                             a.relative_row_sizes, a.relative_col_sizes)
    /\ res' = 0
    /\ UNCHANGED <<ax, ser, exhibit>>

GenTsTickLabelRange(a) ==
    /\ call = Idle
    /\ call' = [op |-> "gen_ts_tick_label_range", args |-> a]
    /\ ret' = gen_ts_tick_label_range(a.start, a.end, a.freq, a.skip)
    /\ res' = 0
    /\ UNCHANGED <<ax, ser, exhibit>>

\* mark_years reads the years off the axis limits, which then are dates of
\* the calendar
FormatPanelTsXaxis(a) ==
    /\ call = Idle
    /\ (a.mark_years /\ a.major_pos = Nothing) => ~QLt(get_xlim(ax)[1], Num(EpochOrdinal))
    /\ call' = [op |-> "format_panel_ts_xaxis", args |-> a]
    /\ ret' = format_panel_ts_xaxis(ax, a)
    /\ res' = 0
    /\ UNCHANGED <<ax, ser, exhibit>>

\* the caller takes the result and goes on
Return ==
    /\ call # Idle
    /\ call' = Idle
    /\ ret' = NoResult
    /\ res' = 0
    /\ UNCHANGED <<ax, ser, exhibit>>

Next ==
    \/ \E lim \in XLims : set_xlim(lim)
    \/ \E lim \in YLims : set_ylim(lim)
    \/ \E coord \in DataCoords, axis \in {0, 1} : Data2fixed(coord, axis)
    \/ \E coord \in FixedCoords, axis \in {0, 1} : Fixed2data(coord, axis)
    \/ call = Idle /\ \E x_range \in XRanges(ser) : ~IsPeriodIndex(ser) /\ ImposeTsXrange(x_range)
    \/ \E a \in BarWidthArgs : CalcTsBarWidth(a)
    \/ \E a \in CenterArgs : ~IsPeriodIndex(ser) /\ CenterTsObs(a)
    \/ PeriodToTs
    \/ \E a \in PlotArgs : PlotPanelTsLine(a)
    \/ \E a \in PlotArgs : PlotPanelTsScatter(a)
    \/ \E a \in PlotArgs, l \in SerLists : PlotPanelTsBarstack(a, l)
    \/ \E a \in CsArgs : CenterCsObs(a)
    \/ \E a \in CsBarArgs : PlotPanelCsBarstack(a)
    \/ \E a \in NumBarArgs : PlotPanelNumBarstack(a)
    \/ \E a \in PartitionArgs : FormPartition(a)
    \/ \E a \in TickRangeArgs : GenTsTickLabelRange(a)
    \/ \E a \in XaxisArgs : FormatPanelTsXaxis(a)
    \/ Return

Spec == Init /\ [][Next]_vars

(***************************************************************************)
(* The Exhibit.  panel_dict maps a panel alias to an axes object of the    *)
(* figure; an axes object is named by its place in fig.axes.  An axes      *)
(* object holds its limits and the x tick locators and tick parameters     *)
(* last set on it; fig.drawn counts the draw calls issued so far on the    *)
(* figure and its axes.  A method of the Exhibit gives [self, out]: the    *)
(* Exhibit after the call and the outcome.                                 *)
(***************************************************************************)
OkNone == [kind |-> "ok", of |-> "none", val |-> 0]
Step(self, out) == [self |-> self, out |-> out]

\* self.panel_dict[panel_alias], once it is known to be there
axes_of(self, panel_alias) == self.fig.axes[self.panel_dict[panel_alias]]
with_axes(self, panel_alias, axes_obj) ==
    [self EXCEPT !.fig.axes[self.panel_dict[panel_alias]] = axes_obj]

\* the axes add_subplot makes
new_axes(self, kind) ==
    [kind |-> kind, xlim |-> <<Num(0), Num(1)>>, ylim |-> <<Num(0), Num(1)>>,
     np64 |-> self.fig.np64, minor |-> Nothing, major |-> Nothing,
     x_tick_params |-> "add_panel"]

\* twinx() and twiny(): a new axes over the original one, with its limits
twin(original, kind) ==
    [original EXCEPT !.kind = kind, !.minor = Nothing, !.major = Nothing,
                     !.x_tick_params = "add_panel"]

\* panel_alias not in self.panel_dict.keys()
not_declared_ever(self, panel_alias) == TRUE
not_declared(self, panel_alias) == panel_alias \notin DOMAIN self.panel_dict

\* a dict that holds the newest panel only
register_alone(self, panel_alias, axes_obj) ==
    [panel_dict |-> [k \in {panel_alias} |-> Len(self.fig.axes) + 1],
     fig |-> [self.fig EXCEPT !.axes = Append(@, axes_obj)]]

\* self.panel_dict[panel_alias] = axes_obj, a new axes object of the figure
register(self, panel_alias, axes_obj) ==
    [panel_dict |-> [k \in DOMAIN self.panel_dict \cup {panel_alias} |->
                        IF k = panel_alias THEN Len(self.fig.axes) + 1
                        ELSE self.panel_dict[k]],
     fig |-> [self.fig EXCEPT !.axes = Append(@, axes_obj)]]

\* self.grid[start:end] along one side of n cells: the slice is cut to the
\* grid, and an empty one is an error
grid_slice(n, start, end) ==
    LET cut(i) == IF i < 0 THEN (IF i + n < 0 THEN 0 ELSE i + n) ELSE IF i > n THEN n ELSE i
    IN  IF cut(end) > cut(start) THEN OkNone ELSE Raise("IndexError")

\* add_subplot(self.grid[h_start:h_end, v_start:v_end]) with h_end and
\* v_end left out
subplot_slot(self, h_start, v_start) ==
    IF grid_slice(self.fig.layout[1], h_start, h_start + 1).kind # "ok"
    THEN Raise("IndexError")
    ELSE grid_slice(self.fig.layout[2], v_start, v_start + 1)

\* [mdates.date2num(pd.Timestamp(x)) for x in x_range], the Periods of an
\* x_range made timestamps first
x_range_nums(x_range) ==
    IF x_range.val = <<>> THEN Raise("IndexError")
    ELSE IF x_range.of = "str" THEN Raise("ValueError")
    ELSE OkList([i \in DOMAIN x_range.val |-> date2num(x_range.val[i])])

\* set_xlim of the list on the registered panel
ts_panel_with_xlim(self, panel_alias, nums) ==
    IF nums.kind # "ok" THEN Step(self, nums)
    ELSE IF Len(nums.val) # 2 THEN Step(self, Raise("ValueError"))
    ELSE Step(with_axes(self, panel_alias,
                        [axes_of(self, panel_alias) EXCEPT !.xlim = <<nums.val[1], nums.val[2]>>]),
              OkNone)

add_panel_ts(self, panel_alias, x_range, h_start, v_start) ==
    IF ~not_declared(self, panel_alias) THEN Step(self, Raise("AssertionError"))
    ELSE IF subplot_slot(self, h_start, v_start).kind # "ok"
    THEN Step(self, subplot_slot(self, h_start, v_start))
    ELSE ts_panel_with_xlim(register(self, panel_alias, new_axes(self, "ts")), panel_alias,
                            x_range_nums(x_range))

\* add_panel_nonts and add_panel_table: the panel of the given kind
add_panel_plain(self, kind, panel_alias, h_start, v_start) ==
    IF ~not_declared(self, panel_alias) THEN Step(self, Raise("AssertionError"))
    ELSE IF subplot_slot(self, h_start, v_start).kind # "ok"
    THEN Step(self, subplot_slot(self, h_start, v_start))
    ELSE Step(register(self, panel_alias, new_axes(self, kind)), OkNone)

add_panel_nonts(self, panel_alias, h_start, v_start) ==
    add_panel_plain(self, "nonts", panel_alias, h_start, v_start)

add_panel_table(self, panel_alias, h_start, v_start) ==
    add_panel_plain(self, "table", panel_alias, h_start, v_start)

\* add_panel_sec_yaxis and add_panel_sec_xaxis: the twin of the given kind
add_panel_sec(self, kind, original_panel_alias, sec_alias) ==
    IF ~not_declared(self, sec_alias) THEN Step(self, Raise("AssertionError"))
    ELSE IF original_panel_alias \notin DOMAIN self.panel_dict THEN Step(self, Raise("KeyError"))
    ELSE Step(register(self, sec_alias, twin(axes_of(self, original_panel_alias), kind)),
              OkNone)

add_panel_sec_yaxis(self, original_panel_alias, sec_alias) ==
    add_panel_sec(self, "twinx", original_panel_alias, sec_alias)

add_panel_sec_xaxis(self, original_panel_alias, sec_alias) ==
    add_panel_sec(self, "twiny", original_panel_alias, sec_alias)

\* self.panel_dict[panel_alias] and n draw calls on the axes found
draw_on(self, panel_alias, n) ==
    IF panel_alias \notin DOMAIN self.panel_dict THEN Step(self, Raise("KeyError"))
    ELSE Step([self EXCEPT !.fig.drawn = @ + n], OkNone)

\* self.font_dict: the four styles of the constructor
font_dict == {"normal", "bold", "italic", "bold-italic"}

\* curr_ax.text(..., fontproperties = self.font_dict[font_style], ...)
add_panel_title(self, panel_alias, font_style) ==
    IF panel_alias \notin DOMAIN self.panel_dict THEN Step(self, Raise("KeyError"))
    ELSE IF font_style \notin font_dict THEN Step(self, Raise("KeyError"))
    ELSE draw_on(self, panel_alias, 1)

\* if caption is not None: self.panel_dict[panel_alias].set_title(caption, ...)
set_caption(step, panel_alias, caption) ==
    IF step.out.kind # "ok" \/ caption = Nothing THEN step
    ELSE draw_on(step.self, panel_alias, 1)

add_panel_captions(self, panel_alias, left_caption, right_caption) ==
    set_caption(set_caption(Step(self, OkNone), panel_alias, left_caption),
                panel_alias, right_caption)

\* one curr_ax.text for each footnote of the list
add_panel_footnotes(self, panel_alias, text_list) ==
    draw_on(self, panel_alias, Len(text_list))

\* the methods that begin with curr_ax = self.panel_dict[panel_alias] and go
\* on to draw on curr_ax alone; their other arguments are as the docstrings
\* ask, so that the draw call is reached
panel_methods ==
    {"add_panel_text", "add_panel_keylines", "add_panel_keydots", "add_panel_keyboxes",
     "add_panel_hline", "add_panel_vline", "add_panel_shading", "add_panel_arrow",
     "plot_panel_cs_line", "plot_panel_cs_scatter", "plot_panel_cs_barstack",
     "plot_panel_cs_pie", "plot_panel_num_line", "plot_panel_num_scatter",
     "plot_panel_num_barstack", "format_panel_numaxis", "format_panel_cs_cataxis"}

panel_method(self, method, panel_alias) == draw_on(self, panel_alias, 1)

\* add_exhibit_title, add_exhibit_captions, add_exhibit_text: self.fig.text
exhibit_methods == {"add_exhibit_title", "add_exhibit_captions", "add_exhibit_text"}
exhibit_method(self, method) == Step([self EXCEPT !.fig.drawn = @ + 1], OkNone)

\* self.fig.savefig(filepath, ...)
save_exhibit(self) == Step(self, OkNone)

\* plot_panel_ts_line of the Exhibit: the panel's axes, the steps of the
\* plot, and curr_ax.plot when they have run through
plotted_on(self, panel_alias, plotted) ==
    IF plotted.out.kind # "ok" THEN [self |-> self, heap |-> plotted.heap, out |-> plotted.out]
    ELSE [self |-> draw_on(self, panel_alias, 1).self, heap |-> plotted.heap, out |-> OkNone]

exhibit_plot_panel_ts_line(self, panel_alias, h, a) ==
    IF panel_alias \notin DOMAIN self.panel_dict
    THEN [self |-> self, heap |-> h, out |-> Raise("KeyError")]
    ELSE plotted_on(self, panel_alias,
                    plot_panel_ts_points(h, 1, a, axes_of(self, panel_alias)))

\* what format_panel_ts_xaxis has set on curr_ax when it comes to the
\* labels: the tick parameters, and the locators of the positions given
xaxis_ticks_set(curr_ax, args, major_pos) ==
    [curr_ax EXCEPT
        !.x_tick_params = "format_panel_ts_xaxis",
        !.minor = IF args.minor_pos # Nothing THEN Some(date2num_list(args.minor_pos[1]))
                  ELSE @,
        !.major = IF major_pos.kind = "ok" /\ (args.major_pos # Nothing \/ args.mark_years)
                  THEN Some(date2num_list(major_pos.val)) ELSE @]

\* one curr_ax.text for each label placed
xaxis_labels_drawn(self, out) ==
    IF out.kind = "ok" THEN [self EXCEPT !.fig.drawn = @ + Len(out.val.labels)] ELSE self

xaxis_formatted(self, panel_alias, curr_ax, args, out) ==
    Step(xaxis_labels_drawn(with_axes(self, panel_alias,
                                      xaxis_ticks_set(curr_ax, args,
                                                      major_ticks(curr_ax, args))),
                            out),
         IF out.kind = "ok" THEN OkNone ELSE out)

exhibit_format_panel_ts_xaxis(self, panel_alias, args) ==
    IF panel_alias \notin DOMAIN self.panel_dict THEN Step(self, Raise("KeyError"))
    ELSE xaxis_formatted(self, panel_alias, axes_of(self, panel_alias), args,
                         format_panel_ts_xaxis(axes_of(self, panel_alias), args))

(***************************************************************************)
(* The calls made on the Exhibit.                                          *)
(***************************************************************************)
PanelKeys == {"upper", "lower"}
\* a cell of the grid and one past its last row
GridStarts == {0, 1}
\* x_range of add_panel_ts: dates, Periods, strings that are no dates, and
\* an empty list
XRangeArgs ==
    {[of |-> "date", val |-> <<Day(2020, 1, 1), Day(2020, 12, 31)>>],
     [of |-> "period", val |-> <<Day(2020, 1, 1), Day(2020, 12, 1)>>],
     [of |-> "str", val |-> <<"first", "last">>],
     [of |-> "date", val |-> <<>>]}
FontStyles == {"bold", "heavy"}
Captions == {Nothing, Some("Percent")}
FootnoteLists == {<<>>, <<"Source: staff">>}

\* calls of format_panel_ts_xaxis whose labels lie on a year's axis: one
\* that labels, one without label_fmt, one whose label frequency cannot be
\* inferred, one without minor ticks
ExhibitXaxisArgs ==
    {XaxisCall,
     [XaxisCall EXCEPT !.label_fmt = Nothing],
     [XaxisCall EXCEPT !.infer_freq_from_fmt = FALSE],
     [XaxisCall EXCEPT !.minor_pos = Nothing, !.label_dates = Nothing]}

ExhibitPlotArgs ==
    {CenterArg(f, 1, 1, Num(1), Num(0)) : f \in {Nothing, Some("x")}}

(***************************************************************************)
(* The state machine of the Exhibit: its caller makes it, then calls its   *)
(* methods one at a time.                                                  *)
(***************************************************************************)
Self == [panel_dict |-> panel_dict, fig |-> fig]

\* Exhibit.__init__: a figure with a grid of layout cells and no panel
ExhibitInit ==
    /\ ax = [xlim |-> <<Num(0), Num(1)>>, ylim |-> <<Num(0), Num(1)>>, np64 |-> TRUE]
    /\ ser = MonthlySeries(2020, 5, MaxLen)
    /\ call = Idle
    /\ ret = NoResult
    /\ res = 0
    /\ panel_dict = <<>>
    /\ fig = [np64 |-> TRUE, layout |-> <<1, 1>>, axes |-> <<>>, drawn |-> 0]

\* the Exhibit after the call, and the call's outcome
Stepped(r) ==
    /\ panel_dict' = r.self.panel_dict
    /\ fig' = r.self.fig
    /\ ret' = r.out
    /\ res' = 0

\* the draw calls counted stay within the bound
DrawRoom(n) == fig.drawn + n <= MaxArtists

AddPanelTs(key, x_range, h_start) ==
    /\ call = Idle
    /\ call' = [op |-> "add_panel_ts", panel_alias |-> key, x_range |-> x_range,
                h_start |-> h_start]
    /\ Stepped(add_panel_ts(Self, key, x_range, h_start, 0))
    /\ UNCHANGED <<ax, ser>>

AddPanelNonts(key, h_start) ==
    /\ call = Idle
    /\ call' = [op |-> "add_panel_nonts", panel_alias |-> key, h_start |-> h_start]
    /\ Stepped(add_panel_nonts(Self, key, h_start, 0))
    /\ UNCHANGED <<ax, ser>>

AddPanelTable(key, h_start) ==
    /\ call = Idle
    /\ call' = [op |-> "add_panel_table", panel_alias |-> key, h_start |-> h_start]
    /\ Stepped(add_panel_table(Self, key, h_start, 0))
    /\ UNCHANGED <<ax, ser>>

AddPanelSecYaxis(original, key) ==
    /\ call = Idle
    /\ call' = [op |-> "add_panel_sec_yaxis", panel_alias |-> key, original |-> original]
    /\ Stepped(add_panel_sec_yaxis(Self, original, key))
    /\ UNCHANGED <<ax, ser>>

AddPanelSecXaxis(original, key) ==
    /\ call = Idle
    /\ call' = [op |-> "add_panel_sec_xaxis", panel_alias |-> key, original |-> original]
    /\ Stepped(add_panel_sec_xaxis(Self, original, key))
    /\ UNCHANGED <<ax, ser>>

AddPanelTitle(key, font_style) ==
    /\ call = Idle
    /\ DrawRoom(1)
    /\ call' = [op |-> "add_panel_title", panel_alias |-> key, font_style |-> font_style]
    /\ Stepped(add_panel_title(Self, key, font_style))
    /\ UNCHANGED <<ax, ser>>

AddPanelCaptions(key, left_caption, right_caption) ==
    /\ call = Idle
    /\ DrawRoom(Len(left_caption) + Len(right_caption))
    /\ call' = [op |-> "add_panel_captions", panel_alias |-> key,
                left_caption |-> left_caption, right_caption |-> right_caption]
    /\ Stepped(add_panel_captions(Self, key, left_caption, right_caption))
    /\ UNCHANGED <<ax, ser>>

AddPanelFootnotes(key, text_list) ==
    /\ call = Idle
    /\ DrawRoom(Len(text_list))
    /\ call' = [op |-> "add_panel_footnotes", panel_alias |-> key, text_list |-> text_list]
    /\ Stepped(add_panel_footnotes(Self, key, text_list))
    /\ UNCHANGED <<ax, ser>>

PanelMethod(method, key) ==
    /\ call = Idle
    /\ DrawRoom(1)
    /\ call' = [op |-> method, panel_alias |-> key]
    /\ Stepped(panel_method(Self, method, key))
    /\ UNCHANGED <<ax, ser>>

ExhibitMethod(method) ==
    /\ call = Idle
    /\ DrawRoom(1)
    /\ call' = [op |-> method]
    /\ Stepped(exhibit_method(Self, method))
    /\ UNCHANGED <<ax, ser>>

SaveExhibit ==
    /\ call = Idle
    /\ call' = [op |-> "save_exhibit"]
    /\ Stepped(save_exhibit(Self))
    /\ UNCHANGED <<ax, ser>>

\* the plot's outcome, the Exhibit after it and what has become of ser
Plotted(r) ==
    /\ panel_dict' = r.self.panel_dict
    /\ fig' = r.self.fig
    /\ ret' = r.out
    /\ res' = 0
    /\ ser' = r.heap[1]

ExhibitPlotPanelTsLine(key, a) ==
    /\ call = Idle
    /\ DrawRoom(1)
    /\ call' = [op |-> "plot_panel_ts_line", panel_alias |-> key, args |-> a]
    /\ Plotted(exhibit_plot_panel_ts_line(Self, key, <<ser>>, a))
    /\ UNCHANGED ax

ExhibitFormatPanelTsXaxis(key, a) ==
    /\ call = Idle
    /\ DrawRoom(IF a.label_dates = Nothing THEN 0 ELSE Len(a.label_dates[1]))
    /\ call' = [op |-> "format_panel_ts_xaxis", panel_alias |-> key, args |-> a]
    /\ Stepped(exhibit_format_panel_ts_xaxis(Self, key, a))
    /\ UNCHANGED <<ax, ser>>

ExhibitNext ==
    \/ \E key \in PanelKeys, x_range \in XRangeArgs, h_start \in GridStarts : AddPanelTs(key, x_range, h_start)
    \/ \E key \in PanelKeys, h_start \in GridStarts : AddPanelNonts(key, h_start)
    \/ \E key \in PanelKeys, h_start \in GridStarts : AddPanelTable(key, h_start)
    \/ \E original \in PanelKeys, key \in PanelKeys : AddPanelSecYaxis(original, key)
    \/ \E original \in PanelKeys, key \in PanelKeys : AddPanelSecXaxis(original, key)
    \/ \E key \in PanelKeys, font_style \in FontStyles : AddPanelTitle(key, font_style)
    \/ \E key \in PanelKeys, l \in Captions, r \in Captions : AddPanelCaptions(key, l, r)
    \/ \E key \in PanelKeys, text_list \in FootnoteLists : AddPanelFootnotes(key, text_list)
    \/ \E method \in panel_methods, key \in PanelKeys : PanelMethod(method, key)
    \/ \E method \in exhibit_methods : ExhibitMethod(method)
    \/ SaveExhibit
    \/ \E key \in PanelKeys, a \in ExhibitPlotArgs : ExhibitPlotPanelTsLine(key, a)
    \/ \E key \in PanelKeys, a \in ExhibitXaxisArgs : ExhibitFormatPanelTsXaxis(key, a)
    \/ Return

ExhibitSpec == ExhibitInit /\ [][ExhibitNext]_vars

(***************************************************************************)
(* Properties                                                              *)
(***************************************************************************)
LimOf(a, axis) == IF axis = 0 THEN a.xlim ELSE a.ylim
ZeroWidth(a, axis) == LimOf(a, axis)[1] = LimOf(a, axis)[2]
ValidRange(a, axis) == QLt(LimOf(a, axis)[1], LimOf(a, axis)[2])

\* the number a data coordinate stands for: itself, or its date's ordinal
CoordValue(coord) ==
    IF coord.type = "number" THEN coord.v
    ELSE Rat(DayNumber(coord.y, coord.m, coord.d) + EpochOrdinal, 1)

\* C1: on an axis range with min < max, fixed2data undoes data2fixed and
\* data2fixed undoes fixed2data, on either axis, and neither call changes the
\* axis range.
C1_RoundTrip ==
    [][/\ (call'.op = "data2fixed" /\ call = Idle /\ ValidRange(ax, call'.axis)) =>
            /\ ax' = ax
            /\ ret'.kind = "ok"
            /\ fixed2data(ret'.val, ax', call'.axis) = OkNum(CoordValue(call'.coord))
       /\ (call'.op = "fixed2data" /\ call = Idle /\ ValidRange(ax, call'.axis)) =>
            /\ ax' = ax
            /\ ret'.kind = "ok"
            /\ data2fixed(NumCoord(ret'.val), ax', call'.axis) = OkNum(call'.coord)]_vars

C1_Witness ==
    /\ call.op = "data2fixed"
    /\ call.coord = DateCoord(2020, 7, 1)
    /\ call.axis = 0
    /\ ax.xlim = <<date2num(Day(2020, 1, 1)), date2num(Day(2020, 12, 31))>>
    /\ ret = OkNum(Rat(182, 365))

\* C2: on a zero-width axis range both conversions fail with an error and
\* return no value.
C2_ZeroWidthFails ==
    (call.op \in {"data2fixed", "fixed2data"} /\ ZeroWidth(ax, call.axis)) => ret.kind = "raise"

(***************************************************************************)
(* The documented period lengths, in days, of the canonical frequency      *)
(* tags.                                                                   *)
(***************************************************************************)
NominalDays ==
    [t \in {"<Minute>", "<Hour>", "<Day>", "<BusinessDay>", "<MonthEnd>", "<6 * MonthEnds>",
            "<QuarterEnd: startingMonth=12>", "<2 * QuarterEnds: startingMonth=12>",
            "<YearEnd: month=12>"} |->
        CASE t = "<Minute>" -> Rat(1, 1440)
          [] t = "<Hour>" -> Rat(1, 24)
          [] t \in {"<Day>", "<BusinessDay>"} -> Num(1)
          [] t = "<MonthEnd>" -> Num(30)
          [] t = "<6 * MonthEnds>" -> Num(180)
          [] t = "<QuarterEnd: startingMonth=12>" -> Num(91)
          [] t = "<2 * QuarterEnds: startingMonth=12>" -> Num(182)
          [] t = "<YearEnd: month=12>" -> Num(365)]
    @@ [t \in {"<5 Minutes>", "<10 Minutes>", "<15 Minutes>", "<20 Minutes>", "<30 Minutes>"} |->
        CASE t = "<5 Minutes>" -> Rat(5, 1440)
          [] t = "<10 Minutes>" -> Rat(10, 1440)
          [] t = "<15 Minutes>" -> Rat(15, 1440)
          [] t = "<20 Minutes>" -> Rat(20, 1440)
          [] t = "<30 Minutes>" -> Rat(30, 1440)]
    @@ [t \in {"<2 Hours>", "<3 Hours>", "<4 Hours>", "<6 Hours>", "<8 Hours>", "<12 Hours>"} |->
        CASE t = "<2 Hours>" -> Rat(2, 24)
          [] t = "<3 Hours>" -> Rat(3, 24)
          [] t = "<4 Hours>" -> Rat(4, 24)
          [] t = "<6 Hours>" -> Rat(6, 24)
          [] t = "<8 Hours>" -> Rat(8, 24)
          [] t = "<12 Hours>" -> Rat(12, 24)]
    @@ [t \in {"<Week: weekday=0>", "<Week: weekday=1>", "<Week: weekday=2>",
               "<Week: weekday=3>", "<Week: weekday=4>", "<Week: weekday=5>",
               "<Week: weekday=6>"} |-> Num(7)]

CanonicalTags == DOMAIN NominalDays

\* the frequency tag a center_ts_obs call works with
CallTag == IF call.args.ser_freq = Nothing THEN ser.freq
           ELSE IF lower(call.args.ser_freq[1]) \in DOMAIN shorthand_freq_dict
                THEN shorthand_freq_dict[lower(call.args.ser_freq[1])]
                ELSE "?"

\* -((0.5 - c/2) * L + (k - 0.5) * (c * L / n) - p) days, in ticks
DocumentedShift(L, n, k, c, p) ==
    -timedelta(QSub(QAdd(QMul(QSub(Rat(1, 2), QMul(c, Rat(1, 2))), L),
                         QMul(Rat(2 * k - 1, 2), QQuot(QMul(c, L), Num(n)))),
                    p))

CallShift == DocumentedShift(NominalDays[CallTag], call.args.number_stacks,
                             call.args.curr_stack, call.args.width_coef, call.args.pos_adj)

\* the series s with every position moved by d ticks
Moved(s, d) == [i \in DOMAIN s.obs |-> <<s.obs[i][1] + d, s.obs[i][2]>>]

AlreadyCentered ==
    /\ CallTag = SemiAnnual
    /\ ser.obs # <<>>
    /\ month(ser.obs[1][1]) \notin {6, 12}

Centered == call.op = "center_ts_obs" /\ ret.kind = "ok"

\* C3 as stated: every series center_ts_obs returns is the input with all
\* positions moved by the one documented shift.
C3_ShiftAlways == Centered => ret.val.obs = Moved(ser, CallShift)

\* C3: unless the series is a 2 x quarter-end series whose first index month
\* is not 6 or 12, center_ts_obs returns the same values in the same order,
\* every position moved by the one documented shift; a monthly point indexed
\* 2021-01-31 moves to 2021-01-16 under the default stack descriptor.
C3_Shift ==
    /\ (Centered /\ ~AlreadyCentered) => ret.val.obs = Moved(ser, CallShift)
    /\ (/\ call.op = "center_ts_obs"
        /\ ser = MonthlySeries(2021, 1, 1)
        /\ call.args = CenterArg(Nothing, 1, 1, Num(1), Num(0)))
            => ret = OkSeries(Series(<<<<Day(2021, 1, 16), 1>>>>, "None"))

C3_Witness ==
    /\ Centered
    /\ ser = MonthlySeries(2020, 5, MaxLen)
    /\ call.args = CenterArg(Some("m"), 2, 2, Rat(4, 5), Rat(1, 2))
    /\ ret.val.obs[1][1] = Day(2020, 5, 31) - (3 + 18) * TicksPerDay + (TicksPerDay \div 2)

\* the closed date interval of an x range, through the end of its last day
InDateInterval(t, x_range) ==
    /\ xrange_date_bounds(x_range)[1] <= t
    /\ t < xrange_date_bounds(x_range)[2] + TicksPerDay

\* C4: impose_ts_xrange keeps exactly the observations from the start date
\* through the end of the end date's day.
C4_ClosedDateInterval ==
    (call.op = "impose_ts_xrange" /\ ret.kind = "ok") =>
        ret.val.obs = SelectSeq(ser.obs, LAMBDA o : InDateInterval(o[1], call.x_range))

(***************************************************************************)
(* Restricting and centering.                                              *)
(***************************************************************************)
\* the x ranges of s whose two bounds lie within the range of the series
WithinRanges(s) ==
    {r \in XRanges(s) :
        /\ s.obs # <<>>
        /\ DayOfTick(s.obs[1][1]) * TicksPerDay <= xrange_date_bounds(r)[1]
        /\ xrange_date_bounds(r)[2] <= s.obs[Len(s.obs)][1]}

CallCenter(s) ==
    center_ts_obs(s, call.args.ser_freq, call.args.number_stacks, call.args.curr_stack,
                  call.args.width_coef, call.args.pos_adj)

\* the ticks by which the call moves every position of ser
WholeShift ==
    IF AlreadyCentered
    THEN timedelta(QQuot(NominalDays[CallTag], Num(2))) + CallShift
    ELSE CallShift

\* what a restriction with date bounds b keeps: the start date through 00:00
\* of the day after the end date
Kept(t, b) == b[1] <= t /\ t <= b[2] + TicksPerDay

\* moving by d ticks takes no observation of ser into or out of what is kept
NoCrossing(b, d) ==
    \A i \in DOMAIN ser.obs : Kept(ser.obs[i][1], b) <=> Kept(ser.obs[i][1] + d, b)

\* the restricted series takes the same branch of the 2 x quarter-end test
SameBranch(kept) ==
    \/ CallTag # SemiAnnual
    \/ /\ kept.obs # <<>>
       /\ month(kept.obs[1][1]) \in {6, 12} <=> month(ser.obs[1][1]) \in {6, 12}

ShorthandCall ==
    /\ call.op = "center_ts_obs"
    /\ call.args.ser_freq # Nothing
    /\ lower(call.args.ser_freq[1]) \in DocumentedShorthands

\* C6: centering a non-empty series with a documented shorthand, in any
\* letter case, and at least one stack resolves to a tag of the period-length
\* table and succeeds.
C6_ShorthandsSucceed ==
    (ShorthandCall /\ ser.obs # <<>> /\ call.args.number_stacks >= 1) =>
        /\ CallTag \in DOMAIN center_freq_dict
        /\ ret.kind = "ok"

CallWidthCoef == IF call.args.width_coef = Nothing THEN Num(1) ELSE call.args.width_coef

\* C8: for a canonical tag and number_stacks >= 1 the bar width is the tag's
\* documented period length times width_coef (1 when left out) divided by
\* number_stacks.
C8_BarWidth ==
    (/\ call.op = "calc_ts_bar_width"
     /\ call.args.freq \in CanonicalTags
     /\ call.args.number_stacks >= 1) =>
        ret = OkNum(QQuot(QMul(NominalDays[call.args.freq], CallWidthCoef),
                          Num(call.args.number_stacks)))

C8_Witness ==
    /\ call.op = "calc_ts_bar_width"
    /\ call.args = BarWidthArg("<Minute>", 2, Rat(4, 5))
    /\ ret = OkNum(Rat(1, 3600))

\* C9: calc_ts_bar_width raises for every number_stacks below 1 and returns
\* no width for it.
C9_RejectsStackCountBelowOne ==
    (call.op = "calc_ts_bar_width" /\ call.args.number_stacks < 1) => ret.kind = "raise"

\* C10: a 2 x quarter-end series whose first index month is not 6 or 12 is
\* moved forward by half the period and then by the standard shift, which
\* under the default stack descriptor returns the positions unchanged; every
\* other series gets the standard shift only.
C10_SemiAnnualOffset ==
    /\ Centered =>
           ret.val.obs = Moved(ser, (IF AlreadyCentered
                                     THEN timedelta(QQuot(NominalDays[CallTag], Num(2)))
                                     ELSE 0) + CallShift)
    /\ (/\ Centered
        /\ AlreadyCentered
        /\ call.args.number_stacks = 1
        /\ call.args.curr_stack = 1
        /\ call.args.width_coef = Num(1)
        /\ call.args.pos_adj = Num(0)) => ret.val.obs = ser.obs

C10_Witness ==
    /\ Centered
    /\ ser = SemiAnnualSeries(3, 2)
    /\ call.args = CenterArg(Nothing, 1, 1, Num(1), Num(0))
    /\ ret.val.obs = ser.obs
    /\ month(ser.obs[1][1]) = 3

(***************************************************************************)
(* Cross-section centering.                                                *)
(***************************************************************************)
\* C11: for number_stacks other than 0, center_cs_obs returns len(ser)
\* positions, the i-th (from 0) being
\* i + width_coef * ((curr_stack - 0.5) / number_stacks - 0.5) + pos_adj,
\* whatever the values of ser are.
C11_CsPositions ==
    (call.op = "center_cs_obs" /\ call.args.number_stacks # 0) =>
        /\ ret.kind = "ok"
        /\ Len(ret.val) = Len(ser.obs)
        /\ \A i \in 0..(Len(ser.obs) - 1) :
               ret.val[i + 1] =
                   QAdd(QAdd(Num(i),
                             QMul(call.args.width_coef,
                                  QSub(Rat(2 * call.args.curr_stack - 1,
                                           2 * call.args.number_stacks),
                                       Rat(1, 2)))),
                        call.args.pos_adj)

C11_Witness ==
    /\ call.op = "center_cs_obs"
    /\ ser = IrregularSeries
    /\ call.args = CenterArg(Nothing, 2, 2, Rat(4, 5), Rat(1, 2))
    /\ ret = OkList(<<Rat(7, 10), Rat(17, 10), Rat(27, 10)>>)

(***************************************************************************)
(* Series arguments.                                                       *)
(***************************************************************************)
SeriesCalls ==
    {"impose_ts_xrange", "period_to_ts", "center_ts_obs", "plot_panel_ts_line",
     "plot_panel_ts_scatter", "plot_panel_ts_barstack"}

\* C12: a call of impose_ts_xrange, period_to_ts, center_ts_obs or of a
\* plot_panel_ts_* method leaves the caller's series with the index and the
\* values it had, and a series it returns is another object.
C12_SeriesUntouched ==
    [][(call = Idle /\ call'.op \in SeriesCalls) => (ser' = ser /\ res' # 1)]_vars

C12_Witness ==
    /\ call.op = "plot_panel_ts_barstack"
    /\ call.ser_list = <<1, 2>>
    /\ ser = MonthlyPeriodSeries(2020, 5, MaxLen - 1)
    /\ call.args = CenterArg(Nothing, 1, 1, Num(1), Num(0))
    /\ ax.xlim = <<date2num(Day(2020, 1, 1)), date2num(Day(2020, 12, 31))>>
    /\ ret.kind = "ok"
    /\ Len(ret.val) = 2
    /\ \E ind \in DOMAIN ret.val[2].height : ret.val[2].height[ind] = 0

(***************************************************************************)
(* Partitions.                                                             *)
(***************************************************************************)
\* weights left out, or positive and one per row or column
GoodWeights(w, n) ==
    w = Nothing \/ (Len(w[1]) = n /\ \A i \in DOMAIN w[1] : QLt(Num(0), w[1][i]))

ValidPartitionCall ==
    /\ call.op = "form_partition"
    /\ call.args.nrow >= 1
    /\ call.args.ncol >= 1
    /\ QLt(call.args.v_start, call.args.v_end)
    /\ QLt(call.args.h_start, call.args.h_end)
    /\ GoodWeights(call.args.relative_row_sizes, call.args.nrow)
    /\ GoodWeights(call.args.relative_col_sizes, call.args.ncol)

\* C13: for a valid partition spec, "rows" has nrow + 1 values, strictly
\* descending from v_end to v_start, and "cols" has ncol + 1 values, strictly
\* ascending from h_start to h_end.
C13_PartitionShape ==
    ValidPartitionCall =>
        /\ ret.kind = "ok"
        /\ Len(ret.val.rows) = call.args.nrow + 1
        /\ Len(ret.val.cols) = call.args.ncol + 1
        /\ ret.val.rows[1] = call.args.v_end
        /\ ret.val.rows[call.args.nrow + 1] = call.args.v_start
        /\ ret.val.cols[1] = call.args.h_start
        /\ ret.val.cols[call.args.ncol + 1] = call.args.h_end
        /\ \A k \in 1..call.args.nrow : QLt(ret.val.rows[k + 1], ret.val.rows[k])
        /\ \A k \in 1..call.args.ncol : QLt(ret.val.cols[k], ret.val.cols[k + 1])

C13_Witness ==
    /\ call.op = "form_partition"
    /\ call.args = PartitionArg(<<Num(0), Num(3), Rat(1, 4), Num(1)>>,
                                <<2, Some(<<Num(2), Num(1)>>)>>, <<2, Nothing>>)
    /\ ret = OkPartition([rows |-> <<Num(1), Rat(1, 2), Rat(1, 4)>>,
                          cols |-> <<Num(0), Rat(3, 2), Num(3)>>])

\* the weights a call works with, and the sum of the first k of them
CallWeights(w, n) == IF w = Nothing THEN [i \in 1..n |-> Num(1)] ELSE w[1]
WeightSum(w, k) ==
    LET S[i \in 0..Len(w)] == IF i = 0 THEN Num(0) ELSE QAdd(S[i - 1], w[i])
    IN  S[IF k < Len(w) THEN k ELSE Len(w)]

\* C14: in what form_partition returns, the k-th row boundary (k from 0,
\* below nrow) is v_end - (v_end - v_start) * (sum of the first k row
\* weights) / (sum of all row weights) and the k-th column boundary is
\* h_start + (h_end - h_start) * (sum of the first k column weights) / (sum
\* of all column weights), weights left out counting as 1; so 2 x 2 on the
\* unit square gives rows 1, 1/2, 0 and cols 0, 1/2, 1, and column weights
\* 2, 1 on 0..3 give cols 0, 2, 3.
C14_PartitionBoundaries ==
    /\ (call.op = "form_partition" /\ ret.kind = "ok") =>
          LET a == call.args
              rw == CallWeights(a.relative_row_sizes, a.nrow)
              cw == CallWeights(a.relative_col_sizes, a.ncol)
          IN  /\ \A k \in 0..(a.nrow - 1) :
                    /\ WeightSum(rw, Len(rw)) # Num(0)
                    /\ ret.val.rows[k + 1] =
                          QSub(a.v_end, QQuot(QMul(QSub(a.v_end, a.v_start), WeightSum(rw, k)),
                                              WeightSum(rw, Len(rw))))
              /\ \A k \in 0..(a.ncol - 1) :
                    /\ WeightSum(cw, Len(cw)) # Num(0)
                    /\ ret.val.cols[k + 1] =
                          QAdd(a.h_start, QQuot(QMul(QSub(a.h_end, a.h_start), WeightSum(cw, k)),
                                                WeightSum(cw, Len(cw))))
    /\ (/\ call.op = "form_partition"
        /\ call.args = PartitionArg(<<Num(0), Num(1), Num(0), Num(1)>>,
                                    <<2, Nothing>>, <<2, Nothing>>)) =>
          ret = OkPartition([rows |-> <<Num(1), Rat(1, 2), Num(0)>>,
                             cols |-> <<Num(0), Rat(1, 2), Num(1)>>])
    /\ (/\ call.op = "form_partition"
        /\ call.args.ncol = 2
        /\ call.args.relative_col_sizes = Some(<<Num(2), Num(1)>>)
        /\ call.args.h_start = Num(0)
        /\ call.args.h_end = Num(3)) =>
          (ret.kind = "ok" /\ ret.val.cols = <<Num(0), Num(2), Num(3)>>)

C14_Witness ==
    /\ call.op = "form_partition"
    /\ call.args = PartitionArg(<<Num(0), Num(3), Rat(1, 4), Num(1)>>,
                                <<2, Nothing>>, <<2, Some(<<Num(2), Num(1)>>)>>)
    /\ ret.kind = "ok"
    /\ ret.val.cols = <<Num(0), Num(2), Num(3)>>

\* C15: form_partition raises when nrow < 1 or ncol < 1, and when a weight
\* list is given whose length is not the number of rows or columns.
C15_RejectsInvalidSpec ==
    (/\ call.op = "form_partition"
     /\ \/ call.args.nrow < 1
        \/ call.args.ncol < 1
        \/ /\ call.args.relative_row_sizes # Nothing
           /\ Len(call.args.relative_row_sizes[1]) # call.args.nrow
        \/ /\ call.args.relative_col_sizes # Nothing
           /\ Len(call.args.relative_col_sizes[1]) # call.args.ncol)
        => ret.kind = "raise"

\* a call of format_panel_ts_xaxis that centred its labels between ticks and
\* placed them all, on an axis range with min < max
TickCentred ==
    /\ call # Idle /\ call.op = "format_panel_ts_xaxis"
    /\ call.args.center_labels /\ call.args.tick_based_label_centering
    /\ ret.kind = "ok" /\ ret.val.labels # <<>>
    /\ ValidRange(ax, 0)

\* the significant x positions: the minor and major ticks the call set and
\* the two x limits
SigPositions ==
    {ret.val.minor[i] : i \in DOMAIN ret.val.minor}
        \cup {ret.val.major[i] : i \in DOMAIN ret.val.major}
        \cup {ax.xlim[1], ax.xlim[2]}

QMin(S) == CHOOSE x \in S : \A y \in S : ~QLt(y, x)
QMax(S) == CHOOSE x \in S : \A y \in S : ~QLt(x, y)

\* the window of the i-th label: from the smallest significant position on
\* or after the label date to the largest one on or before the boundary of
\* the label's next period
LabelDate(i) == date2num(ret.val.labels[i].date)
NextBoundary(i) ==
    next_period_number(ret.val.labels[i].date, ret.val.freqs[i], dummy_freq(ret.val.freqs[1]))
WindowLeft(i) == QMin({x \in SigPositions : ~QLt(x, LabelDate(i))})
WindowRight(i) == QMax({x \in SigPositions : ~QLt(NextBoundary(i), x)})
Collapsed(i) == WindowLeft(i) = WindowRight(i)

\* the normalized x position of the midpoint of lo..hi, moved by label_xoffset
MidpointFixed(lo, hi) ==
    QAdd(data2fixed(NumCoord(QQuot(QAdd(lo, hi), Num(2))), ax, 0).val,
         call.args.label_xoffset)

\* C16 as stated: with center_labels and tick_based_label_centering, every
\* label sits at data2fixed of the midpoint of min_mark and max_mark, min_mark
\* the smallest significant position >= the label date and max_mark the
\* largest significant position <= the label's next-period boundary
C16_LabelAtWindowMidpoint ==
    TickCentred =>
        \A i \in DOMAIN ret.val.labels :
            ret.val.labels[i].x = MidpointFixed(WindowLeft(i), WindowRight(i))

\* C16, amended: the label sits at data2fixed of the midpoint of min_mark and
\* max_mark as stated, except that a window whose two marks coincide has the
\* right x limit for its right edge
C16_LabelAtWindowMidpointOrFallback ==
    TickCentred =>
        \A i \in DOMAIN ret.val.labels :
            ret.val.labels[i].x =
                MidpointFixed(WindowLeft(i),
                              IF Collapsed(i) THEN ax.xlim[2] ELSE WindowRight(i))

\* a label centred between two different ticks inside the axis range
C16_Witness ==
    /\ TickCentred
    /\ \E i \in DOMAIN ret.val.labels :
          /\ QLt(WindowLeft(i), WindowRight(i))
          /\ QLt(ax.xlim[1], WindowLeft(i))
          /\ QLt(WindowRight(i), ax.xlim[2])
          /\ ret.val.labels[i].x = MidpointFixed(WindowLeft(i), WindowRight(i))

\* C17: under tick-based centring a window that collapses to a point gets the
\* right x limit for its right edge and no error, so that the window the
\* label's midpoint is taken of is not of zero width
C17_CollapsedWindowWidened ==
    TickCentred =>
        \A i \in DOMAIN ret.val.labels :
            Collapsed(i) =>
                /\ ret.val.labels[i].x = MidpointFixed(WindowLeft(i), ax.xlim[2])
                /\ WindowLeft(i) # ax.xlim[2]

\* a call that has to take the label frequency from the format: labels to
\* place, no label_dates_freqs, no freq stored on the label dates,
\* infer_freq_from_fmt set
InfersFromFmt ==
    /\ call # Idle /\ call.op = "format_panel_ts_xaxis"
    /\ call.args.label_dates # Nothing /\ call.args.label_dates[1] # <<>>
    /\ call.args.label_fmt # Nothing
    /\ call.args.label_dates_freqs = Nothing
    /\ call.args.stored_freq \in {"absent", "None"}
    /\ call.args.infer_freq_from_fmt

\* the components of a date format from the finest to the coarsest, each
\* with its codes and the frequency it stands for
FmtComponents ==
    <<[codes |-> {"%S"}, freq |-> "<Second>"],
      [codes |-> {"%M"}, freq |-> "<Minute>"],
      [codes |-> {"%H"}, freq |-> "<Hour>"],
      [codes |-> {"%d"}, freq |-> "<Day>"],
      [codes |-> {"%m", "%b", "%B"}, freq |-> "<MonthEnd>"]>>
Present(fmt) ==
    {k \in DOMAIN FmtComponents : \E c \in FmtComponents[k].codes : contains(fmt, c)}
FinestFreq(fmt) ==
    IF Present(fmt) = {} THEN "<YearEnd: month=12>"
    ELSE FmtComponents[CHOOSE k \in Present(fmt) : \A j \in Present(fmt) : k <= j].freq

\* C18: a label frequency inferred from the format is that of the finest
\* component in label_fmt, seconds before minutes before hours before days
\* before months, annual when it holds none of them, and monthly whatever
\* the format under irregular_month_fmt
C18_FinestComponentOfFormat ==
    (InfersFromFmt /\ ret.kind = "ok") =>
        \A i \in DOMAIN ret.val.freqs :
            ret.val.freqs[i] =
                IF call.args.irregular_month_fmt THEN "<MonthEnd>"
                ELSE FinestFreq(call.args.label_fmt[1])

\* a format holding days and months was resolved to daily labels
C18_Witness ==
    /\ InfersFromFmt /\ ret.kind = "ok" /\ ~call.args.irregular_month_fmt
    /\ Cardinality(Present(call.args.label_fmt[1])) > 1
    /\ ret.val.freqs # <<>>
    /\ \A i \in DOMAIN ret.val.freqs : ret.val.freqs[i] = "<Day>"

\* a series storing no freq and too short for one to be inferred
ShortNoFreq(s) == s.freq = "None" /\ Len(s.obs) < 3
\* the k-th series a bar stack can be called with
CallSeries(k) == IF k = 1 THEN ser ELSE Companion

PlotsWithoutFreq(ops) ==
    call # Idle /\ call.op \in ops /\ call.args.ser_freq = Nothing
\* labels whose frequency has to come from their spacing, fewer than 3 of them
SpacingOfFewLabels ==
    /\ call # Idle /\ call.op = "format_panel_ts_xaxis"
    /\ call.args.label_dates # Nothing /\ Len(call.args.label_dates[1]) < 3
    /\ call.args.label_dates_freqs = Nothing
    /\ call.args.stored_freq \in {"absent", "None"}
    /\ ~call.args.infer_freq_from_fmt

\* C19 as stated: without ser_freq, a line, scatter or bar stack plot of a
\* series that stores no freq and has fewer than 3 observations fails, and so
\* does format_panel_ts_xaxis told to infer the label frequency from the
\* spacing of fewer than 3 label dates that store no freq
C19_TooShortToInfer ==
    /\ (PlotsWithoutFreq({"plot_panel_ts_line", "plot_panel_ts_scatter"}) /\ ShortNoFreq(ser))
          => ret.kind = "raise"
    /\ (/\ PlotsWithoutFreq({"plot_panel_ts_barstack"})
        /\ \E k \in DOMAIN call.ser_list : ShortNoFreq(CallSeries(call.ser_list[k])))
          => ret.kind = "raise"
    /\ SpacingOfFewLabels => ret.kind = "raise"

\* C19, amended: the bar stack fails when the first series of its list is
\* the short one without a freq, and format_panel_ts_xaxis when it has a
\* label format to place labels with; the line and scatter plots as stated
C19_TooShortToInferFirstSeries ==
    /\ (PlotsWithoutFreq({"plot_panel_ts_line", "plot_panel_ts_scatter"}) /\ ShortNoFreq(ser))
          => ret.kind = "raise" /\ ret.of = "exception"
    /\ (/\ PlotsWithoutFreq({"plot_panel_ts_barstack"})
        /\ ShortNoFreq(CallSeries(call.ser_list[1])))
          => ret.kind = "raise" /\ ret.of = "exception"
    /\ (/\ SpacingOfFewLabels
        /\ (call.args.label_fmt # Nothing \/ call.args.irregular_month_fmt))
          => ret.kind = "raise" /\ ret.of = "exception"

\* a line plot of a two-observation series without a freq was refused
C19_Witness ==
    /\ PlotsWithoutFreq({"plot_panel_ts_line"})
    /\ ShortNoFreq(ser) /\ Len(ser.obs) = 2
    /\ ret = Raise("AssertionError")

\* a call of gen_ts_tick_label_range with one of the frequency options
FreqOptions == {"S", "MIN", "H", "D", "B", "W", "M", "Q", "A", "Y"}
TickRangeCall ==
    /\ call # Idle /\ call.op = "gen_ts_tick_label_range"
    /\ upper(call.args.freq) \in FreqOptions
SkipOf(a) == IF a.skip = Nothing THEN 1 ELSE a.skip[1]

IsMonthStart(t) ==
    LET ymd == DateOfDay(DayOfTick(t))
    IN  t = MonthStartDay(MonthIndex(ymd[1], ymd[2])) * TicksPerDay
MonthsApart(t1, t2) ==
    LET a == DateOfDay(DayOfTick(t1))
        b == DateOfDay(DayOfTick(t2))
    IN  MonthIndex(b[1], b[2]) - MonthIndex(a[1], a[2])
BusinessDaysApart(t1, t2) ==
    Cardinality({d \in (DayOfTick(t1) + 1)..DayOfTick(t2) : weekday(d) < 5})

\* t2 is k periods of the frequency after t1
PeriodsApart(t1, t2, code, k) ==
    CASE code = "S" -> t2 - t1 = k
      [] code = "MIN" -> t2 - t1 = 60 * k
      [] code = "H" -> t2 - t1 = 60 * 60 * k
      [] code = "D" -> t2 - t1 = TicksPerDay * k
      [] code = "W" -> t2 - t1 = 7 * TicksPerDay * k
      [] code = "B" -> (t2 - t1) % TicksPerDay = 0 /\ BusinessDaysApart(t1, t2) = k
      [] code = "M" -> IsMonthStart(t1) /\ IsMonthStart(t2) /\ MonthsApart(t1, t2) = k
      [] code = "Q" -> IsMonthStart(t1) /\ IsMonthStart(t2) /\ MonthsApart(t1, t2) = 3 * k
      [] code \in {"A", "Y"} ->
            IsMonthStart(t1) /\ IsMonthStart(t2) /\ MonthsApart(t1, t2) = 12 * k

\* C20: gen_ts_tick_label_range returns a list of dates in [start, end], in
\* increasing order and skip periods of freq apart; 2020-01-01..2020-12-31
\* by year is 2020-01-01 alone, and 2019-01-01..2020-12-31 by quarter the
\* first days of the 8 quarters of 2019 and 2020
C20_TickLabelRange ==
    TickRangeCall =>
        LET a == call.args
            code == upper(a.freq)
        IN  /\ ret.kind = "ok" /\ ret.of = "dates"
            /\ \A i \in DOMAIN ret.val :
                  Timestamp(a.start) <= ret.val[i] /\ ret.val[i] <= Timestamp(a.end)
            /\ \A i \in 1..(Len(ret.val) - 1) :
                  /\ ret.val[i] < ret.val[i + 1]
                  /\ PeriodsApart(ret.val[i], ret.val[i + 1], code, SkipOf(a))
            /\ (a.start = DateCoord(2020, 1, 1) /\ a.end = DateCoord(2020, 12, 31)
                  /\ code \in {"A", "Y"} /\ a.skip = Nothing)
                  => ret.val = <<Day(2020, 1, 1)>>
            /\ (a.start = DateCoord(2019, 1, 1) /\ a.end = DateCoord(2020, 12, 31)
                  /\ code = "Q" /\ a.skip = Nothing)
                  => ret.val = [i \in 1..8 |-> MonthStartDay(3 * (i - 1)) * TicksPerDay]

(***************************************************************************)
(* Properties of the Exhibit                                               *)
(***************************************************************************)
AddPanelOps ==
    {"add_panel_ts", "add_panel_nonts", "add_panel_table", "add_panel_sec_yaxis",
     "add_panel_sec_xaxis"}
\* a step that is a call of one of the named methods
Calls(ops) == call = Idle /\ call'.op \in ops

\* C21: each of the five add_panel_* methods, called with an alias that is a
\* key of panel_dict (whichever method registered it, and also when a
\* secondary axis is given the alias of its own original panel), raises, and
\* panel_dict is after the call what it was before.
C21_DuplicateKeyRejected ==
    [][(Calls(AddPanelOps) /\ call'.panel_alias \in DOMAIN panel_dict)
          => (ret'.kind = "raise" /\ panel_dict' = panel_dict)]_vars

\* a secondary y axis asked for under the alias of its own original panel, a
\* time-series panel, has been refused
C21_Witness ==
    /\ call.op = "add_panel_sec_yaxis"
    /\ call.panel_alias = call.original
    /\ call.panel_alias \in DOMAIN panel_dict
    /\ fig.axes[panel_dict[call.panel_alias]].kind = "ts"
    /\ ret = Raise("AssertionError")

\* C22: every step of the Exhibit keeps each key of panel_dict with the axes
\* it maps to; panel_dict changes in calls of the five add_panel_* methods
\* only, and such a call that returns has added its alias, a new key, and
\* nothing else.
C22_PanelDictAppendOnly ==
    [][/\ \A k \in DOMAIN panel_dict :
             k \in DOMAIN panel_dict' /\ panel_dict'[k] = panel_dict[k]
       /\ panel_dict' # panel_dict => Calls(AddPanelOps)
       /\ (Calls(AddPanelOps) /\ ret'.kind = "ok")
             => /\ call'.panel_alias \notin DOMAIN panel_dict
                /\ DOMAIN panel_dict' = DOMAIN panel_dict \cup {call'.panel_alias}]_vars

\* two panels are registered and the x axis of one has been formatted
C22_Witness ==
    /\ call.op = "format_panel_ts_xaxis"
    /\ ret = OkNone
    /\ DOMAIN panel_dict = PanelKeys
    /\ panel_dict[call.panel_alias] = 1

\* the methods that take the key of a panel to draw on or to format, and
\* the two that take the key of an original panel
DrawFormatOps ==
    {"add_panel_title", "add_panel_captions", "add_panel_footnotes", "plot_panel_ts_line",
     "format_panel_ts_xaxis"} \cup panel_methods
SecAxisOps == {"add_panel_sec_yaxis", "add_panel_sec_xaxis"}
\* the key a call of one of them is to find in panel_dict
PanelKeyOf(c) == IF c.op \in SecAxisOps THEN c.original ELSE c.panel_alias

\* C23: a draw or format method called with a panel key that is not in
\* panel_dict, and add_panel_sec_yaxis / add_panel_sec_xaxis called with such
\* an original_panel_alias, raise, register no panel and issue no draw call.
C23_UnregisteredKeyFails ==
    [][(Calls(DrawFormatOps \cup SecAxisOps) /\ PanelKeyOf(call') \notin DOMAIN panel_dict)
          => (ret'.kind = "raise" /\ panel_dict' = panel_dict /\ fig' = fig)]_vars

\* format_panel_ts_xaxis returning at its message about label_fmt: label_dates
\* given, no label_fmt, irregular_month_fmt false
GivesUpOnLabels(c) ==
    /\ c.op = "format_panel_ts_xaxis"
    /\ c.args.label_dates # Nothing
    /\ c.args.label_fmt = Nothing
    /\ ~c.args.irregular_month_fmt

\* C24: a call on the Exhibit that raises, and a format_panel_ts_xaxis call
\* that gives up on its labels, leave panel_dict and the figure (its axes
\* with their tick locators and tick parameters, its draw calls) as they
\* were before the call.
C24_FailedCallChangesNothing ==
    [][(call = Idle /\ call' # Idle /\ (ret'.kind = "raise" \/ GivesUpOnLabels(call')))
          => (panel_dict' = panel_dict /\ fig' = fig)]_vars

(***************************************************************************)
(* Properties of the stack layout                                          *)
(***************************************************************************)
CenteringOps ==
    {"center_ts_obs", "center_cs_obs", "plot_panel_ts_line", "plot_panel_ts_scatter",
     "plot_panel_ts_barstack"}
\* the positions a centering call returned or the artists a plot drew
ProducedPositions ==
    /\ ret.kind = "ok"
    /\ IF ret.of = "series" THEN ret.val.obs # <<>> ELSE ret.val # <<>>

\* C25: a centering call that returned positions, and a plot call that drew
\* centred observations, was given 1 <= curr_stack <= number_stacks.
C25_StackDescriptorInRange ==
    (call.op \in CenteringOps /\ ProducedPositions)
        => (1 <= call.args.curr_stack /\ call.args.curr_stack <= call.args.number_stacks)

\* the stack descriptor of the call is one of number_stacks >= 1 stacks,
\* placed without adjustment
StackOfSlot ==
    /\ call.args.number_stacks >= 1
    /\ 1 <= call.args.curr_stack /\ call.args.curr_stack <= call.args.number_stacks
    /\ call.args.pos_adj = Num(0)
\* center_ts_obs has centred a stack
CentredTs == call.op = "center_ts_obs" /\ ret.kind = "ok" /\ StackOfSlot
CentredCs == call.op = "center_cs_obs" /\ ret.kind = "ok" /\ StackOfSlot
\* days as ticks
InTicks(q) == QMul(q, Num(TicksPerDay))
\* the bar drawn for stack curr_stack at position x with width w is the
\* curr_stack-th of number_stacks slices of width w, counted from the edge
\* at first and in the direction dir
IsSlice(x, w, first, dir) ==
    QSub(x, QMul(Num(dir), QQuot(w, Num(2))))
        = QAdd(first, QMul(Num(dir * (call.args.curr_stack - 1)), w))
\* the time-series bars of width w tile, from the right, the slot of width
\* slot whose midpoint lies centre ticks from the index of each observation
TsBarsTileSlot(w, slot, centre) ==
    \A i \in DOMAIN ret.val.obs :
        IsSlice(Num(ret.val.obs[i][1] - ser.obs[i][1]), w, QAdd(centre, QQuot(slot, Num(2))), -1)
\* the same for the frequency tag of the call, when calc_ts_bar_width knows
\* it: the bars have the width calc_ts_bar_width gives, the slot is of width
\* width_coef * period_length, and its midpoint lies half a period before
\* the index, or at the index where at_index holds
TsBarsTile(tag, at_index) ==
    tag \in DOMAIN bar_freq_dict
        => TsBarsTileSlot(
               InTicks(calc_ts_bar_width(tag, call.args.number_stacks, call.args.width_coef).val),
               InTicks(QMul(call.args.width_coef, bar_freq_dict[tag])),
               IF at_index THEN Num(0) ELSE InTicks(QQuot(bar_freq_dict[tag], Num(-2))))
\* the cross-section bars of width width_coef / number_stacks tile, from the
\* left, [i - width_coef / 2, i + width_coef / 2]
CsBarsTile ==
    \A i \in DOMAIN ret.val :
        IsSlice(ret.val[i], QQuot(call.args.width_coef, Num(call.args.number_stacks)),
                QSub(Num(i - 1), QQuot(call.args.width_coef, Num(2))), 1)
\* the series of the call is one center_ts_obs takes as centred already
CentredSlot(tag) == freq_check(ser, tag)

\* C26 as stated: for number_stacks n >= 1, width_coef c in (0, 1] and
\* pos_adj = 0 the bar of stack k, centred at center_ts_obs's position with
\* width calc_ts_bar_width(freq, n, c), is the k-th of n slices of equal width
\* of the interval of width c * period_length whose midpoint lies half a
\* period before the index (so the n bars have disjoint interiors, adjacent
\* ones share an edge and their union is that interval); the cross-section
\* bar at center_cs_obs's position with width c / n is the k-th slice of
\* [i - c/2, i + c/2].
C26_StacksTileSlot ==
    /\ CentredTs => TsBarsTile(CallTag, FALSE)
    /\ CentredCs => CsBarsTile

\* C26, amended: the same, the midpoint of the interval being the index
\* itself for a 2 x quarter-end series whose first observation is not in
\* June or December.
C26_StacksTileSlotOrCentredSlot ==
    /\ CentredTs => TsBarsTile(CallTag, CentredSlot(CallTag))
    /\ CentredCs => CsBarsTile

\* the last of several stacks has been centred on a series with observations
C26_Witness ==
    /\ CentredTs /\ CallTag \in DOMAIN bar_freq_dict
    /\ call.args.number_stacks = MaxStacks /\ call.args.curr_stack = MaxStacks
    /\ call.args.width_coef = Rat(4, 5)
    /\ ret.val.obs # <<>>

(***************************************************************************)
(* Further properties of format_panel_ts_xaxis                             *)
(***************************************************************************)
OnAxis(x) == ~QLt(x, ax.xlim[1]) /\ ~QLt(ax.xlim[2], x)
\* the normalized x position of the data position x, moved by label_xoffset
FixedOf(x) == MidpointFixed(x, x)

\* C27: under tick-based centring, for a label date within the x limits,
\* min_mark is not greater than max_mark before the fallback for a collapsed
\* window applies, and a label whose window has not collapsed is placed
\* between the label date and the boundary of its next period.
C27_WindowNotReversed ==
    TickCentred =>
        \A i \in DOMAIN ret.val.labels :
            OnAxis(LabelDate(i)) =>
                /\ ~QLt(WindowRight(i), WindowLeft(i))
                /\ ~Collapsed(i) =>
                      /\ ~QLt(ret.val.labels[i].x, FixedOf(LabelDate(i)))
                      /\ ~QLt(FixedOf(NextBoundary(i)), ret.val.labels[i].x)

(***************************************************************************)
(* Further properties of the centring and the bar stacks                   *)
(***************************************************************************)
WidthCoefOfCall == IF call.args.width_coef = Nothing THEN Num(1) ELSE call.args.width_coef

\* C28: calc_ts_bar_width and center_ts_obs work from the same table of
\* period lengths: calc_ts_bar_width accepts a frequency tag exactly when
\* center_ts_obs's table holds it, and the width it returns is the bar_width
\* center_ts_obs computes from its own table,
\* width_coef * period_length / number_stacks.
C28_SamePeriodTable ==
    (call.op = "calc_ts_bar_width" /\ call.args.number_stacks # 0) =>
        /\ ret.kind = "ok" <=> call.args.freq \in DOMAIN center_freq_dict
        /\ ret.kind = "ok" =>
              ret.val = QQuot(QMul(WidthCoefOfCall, center_freq_dict[call.args.freq]),
                              Num(call.args.number_stacks))

\* C30: center_ts_obs of a series without observations, for a frequency its
\* table holds (2 x quarter-end among them), returns a series without
\* observations and does not raise.
C30_EmptySeriesCentred ==
    (call.op = "center_ts_obs" /\ ser.obs = <<>> /\ CallTag \in DOMAIN center_freq_dict
        /\ call.args.number_stacks # 0)
        => (ret.kind = "ok" /\ ret.val.obs = <<>>)

\* the sign class of a plotted value and the number it adds to a total
Classed(y) ==
    IF y.nan THEN [class |-> "none", v |-> 0]
    ELSE [class |-> IF y.v >= 0 THEN "nonneg" ELSE "neg", v |-> y.v]

\* the sum of the values before the s-th that are of the s-th value's sign class
RECURSIVE SameSignBelow(_, _, _)
SameSignBelow(column, s, j) ==
    IF j >= s THEN 0
    ELSE (IF column[j].class = column[s].class THEN column[j].v ELSE 0)
             + SameSignBelow(column, s, j + 1)

\* the values the bars of a stack have at ind, first series first
TsColumn(bars, ind) == [s \in DOMAIN bars |-> Classed(Float(bars[s].height[ind]))]
StackColumn(bars, ind) == [s \in DOMAIN bars |-> Classed(bars[s].height[ind])]

\* C29: in plot_panel_ts_barstack, plot_panel_cs_barstack and
\* plot_panel_num_barstack the bar of the s-th series at an index starts at the
\* sum of the values the earlier series of the same sign class (>= 0, or < 0)
\* have at that index, for every list of series.
C29_BarsStartAtSameSignTotal ==
    /\ (call.op = "plot_panel_ts_barstack" /\ ret.kind = "ok")
           => \A s \in DOMAIN ret.val : \A ind \in DOMAIN ret.val[s].bottom :
                  ret.val[s].bottom[ind] = SameSignBelow(TsColumn(ret.val, ind), s, 1)
    /\ (call.op \in {"plot_panel_cs_barstack", "plot_panel_num_barstack"} /\ ret.kind = "ok")
           => \A s \in DOMAIN ret.val : \A ind \in DOMAIN ret.val[s].bottom :
                  StackColumn(ret.val, ind)[s].class # "none"
                      => ret.val[s].bottom[ind]
                             = Float(SameSignBelow(StackColumn(ret.val, ind), s, 1))

\* the same for the lists of series that hold no nan
StackedList ==
    IF call.op = "plot_panel_cs_barstack" THEN call.args.ser_list
    ELSE IF call.op = "plot_panel_num_barstack" THEN call.args.y_obs
    ELSE <<>>
C29_NumbersStartAtSameSignTotal ==
    (\A s \in DOMAIN StackedList : \A ind \in DOMAIN StackedList[s] : ~StackedList[s][ind].nan)
        => C29_BarsStartAtSameSignTotal
====
